---- MODULE Spec2Model ----
(***************************************************************************)
(* A model of the CustomManyParticleForce CUDA kernels                     *)
(* (platforms/cuda/src/kernels/customManyParticle.cu): the neighbor-list   *)
(* pipeline findBlockBounds -> findNeighbors -> computeNeighborStartIndices*)
(* -> copyPairsToNeighborList and the interaction kernel                   *)
(* computeInteraction.                                                     *)
(*                                                                         *)
(* Every kernel is modelled per worker (one CUDA thread): a worker's step  *)
(* is one iteration of the kernel's loop, and the steps of different       *)
(* workers interleave freely.  The kernels are compiled without            *)
(* USE_PERIODIC.  Positions have integer coordinates, so squared distances *)
(* are exact; blockCenter and blockBoundingBox hold twice the value the    *)
(* kernel stores (0.5f*(maxPos+minPos) and 0.5f*(maxPos-minPos)), so that  *)
(* they stay integers, and the tile test compares against 4*CUTOFF_SQUARED.*)
(*                                                                         *)
(* The host code that launches the kernels and expands the macros of       *)
(* computeInteraction is not part of the kernel file; it is modelled from  *)
(* the design document (sections 4.4, 4.5 and 7).                          *)
(***************************************************************************)
EXTENDS Integers, Sequences, FiniteSets, Bags

\* ------------------------------------------------------------------ bounds
MaxAtoms == 4

MaxTile == 2

MaxGrid == 2

MaxBlock == 2

\* Particles of the inputs that run the whole pipeline on several workers.
MaxParallelAtoms == 3

MaxExclusions == 2

\* Largest particlesPerSet.
MaxGroup == 3

\* Largest of the capacities that are too small.
MaxScarce == 2

\* The positions a particle can take, and the squared cutoffs.
PointSeq == <<<<0, 0, 0>>, <<1, 0, 0>>, <<1, 1, 1>>>>

Points == {PointSeq[i] : i \in 1 .. Len(PointSeq)}

CutoffChoices == {1, 3, 4}

\* ------------------------------------------------------------------ state
VARIABLES
    cfg,                 \* the compile-time macros and the read-only inputs
    stage,               \* the kernel that is running, or the host's position
    wk,                  \* per worker: the locals of the running kernel
    maxNeighborPairs,    \* capacity of neighborPairs and neighbors
    blockCenter, blockBoundingBox,
    numNeighborPairs, neighborPairs, numNeighborsForAtom,
    neighborStartIndex, neighbors, posBuffer,
    forceBuffers, energyBuffer,
    evaluated,           \* history: bag of the groups COMPUTE_INTERACTION ran on
    outOfBounds,         \* history: accesses that fell outside their array
    attempts,            \* history: how many times discovery was started
    workDone,            \* history: the work items and slots the workers have handled
    gayBerne,            \* ReferenceGayBerneForce: one call of calculateForce
    scan                 \* prefixSum: one call by the threads of a block

kernelVars == <<cfg, stage, wk, maxNeighborPairs, blockCenter, blockBoundingBox,
                numNeighborPairs, neighborPairs, numNeighborsForAtom,
                neighborStartIndex, neighbors, posBuffer, forceBuffers, energyBuffer,
                evaluated, outOfBounds, attempts, workDone>>

vars == <<kernelVars, gayBerne, scan>>

\* ------------------------------------------------------------------ macros
NUM_ATOMS == cfg.NUM_ATOMS

TILE_SIZE == cfg.TILE_SIZE

CUTOFF_SQUARED == cfg.CUTOFF_SQUARED

USE_CUTOFF == cfg.USE_CUTOFF

USE_FILTERS == cfg.USE_FILTERS

USE_EXCLUSIONS == cfg.USE_EXCLUSIONS

posq == cfg.posq

exclusions == cfg.exclusions

exclusionStartIndex == cfg.exclusionStartIndex

gridDim == cfg.gridDim

blockDim == cfg.blockDim

\* Number of tiles: ceil(NUM_ATOMS / TILE_SIZE).
NumBlocksOf(n, t) == (n + t - 1) \div t

NUM_BLOCKS == NumBlocksOf(NUM_ATOMS, TILE_SIZE)

\* The particle arrays are padded to a whole number of tiles.
PADDED_NUM_ATOMS == NUM_BLOCKS * TILE_SIZE

\* ------------------------------------------------------------------ helpers
Min2(a, b) == IF a < b THEN a ELSE b

Max2(a, b) == IF a > b THEN a ELSE b

Abs(a) == IF a < 0 THEN -a ELSE a

Workers == 0 .. (gridDim * blockDim - 1)

blockIdx(w) == w \div blockDim

threadIdx(w) == w % blockDim

\* delta with the z component left out of the squared distance.
deltaFlat(vec1, vec2) ==
    LET x == vec1[1] - vec2[1]
        y == vec1[2] - vec2[2]
        z == vec1[3] - vec2[3]
    IN  [x |-> x, y |-> y, z |-> z, w |-> x * x + y * y]

\* delta(): the difference of two positions and, as w, its squared magnitude.
delta(vec1, vec2) ==
    LET x == vec1[1] - vec2[1]
        y == vec1[2] - vec2[2]
        z == vec1[3] - vec2[3]
    IN  [x |-> x, y |-> y, z |-> z, w |-> x * x + y * y + z * z]

\* The scan stopping one entry short of the start of the particle's list.
RECURSIVE ExclusionScanShort(_, _, _, _)
ExclusionScanShort(i, first, atom1, atom2) ==
    IF i <= first THEN FALSE
    ELSE LET excluded == exclusions[i]
         IN  IF excluded = atom2 THEN TRUE
             ELSE IF excluded <= atom1 THEN FALSE
             ELSE ExclusionScanShort(i - 1, first, atom1, atom2)

RECURSIVE ExclusionScan(_, _, _, _)
ExclusionScan(i, first, atom1, atom2) ==
    IF i < first THEN FALSE
    ELSE LET excluded == exclusions[i]
         IN  IF excluded = atom2 THEN TRUE
             ELSE IF excluded <= atom1 THEN FALSE
             ELSE ExclusionScan(i - 1, first, atom1, atom2)

\* The test on the last stored entry of the particle's list only.
isInteractionExcludedLastOnly(atom1, atom2) ==
    LET first == exclusionStartIndex[atom1]
        last == exclusionStartIndex[atom1 + 1]
    IN  ExclusionScan(last - 1, Max2(first, last - 1), atom1, atom2)

isInteractionExcluded(atom1, atom2) ==
    LET first == exclusionStartIndex[atom1]
        last == exclusionStartIndex[atom1 + 1]
    IN  ExclusionScan(last - 1, first, atom1, atom2)

\* ------------------------------------------------------------------ host tables
RECURSIVE SortedSeq(_)
SortedSeq(S) ==
    IF S = {} THEN <<>>
    ELSE LET m == CHOOSE x \in S : \A y \in S : x <= y
         IN  <<m>> \o SortedSeq(S \ {m})

ZeroBased(s) == [i \in 0 .. (Len(s) - 1) |-> s[i + 1]]

\* The particles excluded with particle a, for a set E of unordered pairs.
Partners(E, a) == {b \in 0 .. MaxAtoms : b # a /\ {a, b} \in E}

RECURSIVE ExclusionLists(_, _, _)
ExclusionLists(E, n, a) ==
    IF a >= n THEN <<>>
    ELSE SortedSeq(Partners(E, a)) \o ExclusionLists(E, n, a + 1)

\* Compressed sparse rows: the sorted partner list of every particle.
BuildExclusions(E, n) == ZeroBased(ExclusionLists(E, n, 0))

BuildExclusionStartIndex(E, n) ==
    [a \in 0 .. n |->
        Cardinality({pr \in (0 .. (n - 1)) \X (0 .. MaxAtoms) :
                        pr[1] < a /\ pr[2] \in Partners(E, pr[1])})]

Types == {0, 1}

NumTypes == Cardinality(Types)

RolePermutations(G) ==
    {p \in [1 .. G -> 1 .. G] : \A i, j \in 1 .. G : i # j => p[i] # p[j]}

\* Lexicographic order on sequences of equal length.
LexLess(p, q) ==
    \E k \in 1 .. Len(p) : p[k] < q[k] /\ \A i \in 1 .. (k - 1) : p[i] = q[i]

RECURSIVE LexSorted(_)
LexSorted(S) ==
    IF S = {} THEN <<>>
    ELSE LET m == CHOOSE x \in S : \A y \in S \ {x} : LexLess(x, y)
         IN  <<m>> \o LexSorted(S \ {m})

\* The role permutations, in the order the order table numbers them.
PermutationList(G) == LexSorted(RolePermutations(G))

RECURSIVE Power(_, _)
Power(b, e) == IF e = 0 THEN 1 ELSE b * Power(b, e - 1)

\* The index of a tuple of G types in orderIndex.
TypeIndexOf(tt) ==
    LET RECURSIVE Sum(_)
        Sum(i) == IF i > Len(tt) THEN 0
                  ELSE tt[i] * Power(NumTypes, i - 1) + Sum(i + 1)
    IN  Sum(1)

\* Role i takes member perm[i] of the group; its type must pass filter i.
PermutationAllowed(perm, tt, filters) ==
    \A i \in 1 .. Len(tt) : filters[i] = {} \/ tt[perm[i]] \in filters[i]

\* orderIndex: for every tuple of types the first allowed permutation, or -1.
BuildOrderIndex(filters, G) ==
    LET perms == PermutationList(G)
        OrderOf(tt) ==
            IF \E k \in 1 .. Len(perms) : PermutationAllowed(perms[k], tt, filters)
            THEN (CHOOSE k \in 1 .. Len(perms) :
                     /\ PermutationAllowed(perms[k], tt, filters)
                     /\ \A j \in 1 .. (k - 1) :
                            ~PermutationAllowed(perms[j], tt, filters)) - 1
            ELSE -1
    IN  [ix \in 0 .. (Power(NumTypes, G) - 1) |->
            OrderOf(CHOOSE tt \in [1 .. G -> Types] : TypeIndexOf(tt) = ix)]

\* particleOrder: the permutations laid end to end, members counted from 0.
BuildParticleOrder(G) ==
    LET perms == PermutationList(G)
    IN  [k \in 0 .. (G * Len(perms) - 1) |-> perms[(k \div G) + 1][(k % G) + 1] - 1]

MakeCfg(n, t, csq, useCutoff, pos, E, types, filters, G, gd, bd) ==
    [NUM_ATOMS |-> n, TILE_SIZE |-> t, CUTOFF_SQUARED |-> csq,
     USE_CUTOFF |-> useCutoff,
     USE_EXCLUSIONS |-> (E # {}),
     USE_FILTERS |-> (\E i \in 1 .. G : filters[i] # {}),
     posq |-> [i \in 0 .. (NumBlocksOf(n, t) * t - 1) |->
                  IF i < n THEN pos[i] ELSE <<0, 0, 0>>],
     exclusionSet |-> E,
     exclusions |-> BuildExclusions(E, n),
     exclusionStartIndex |-> BuildExclusionStartIndex(E, n),
     particlesPerSet |-> G,
     particleTypes |-> types,
     typeFilters |-> filters,
     orderIndex |-> BuildOrderIndex(filters, G),
     particleOrder |-> BuildParticleOrder(G),
     gridDim |-> gd, blockDim |-> bd]

\* ------------------------------------------------------------------ inputs
AllPairs(n) == {{i, j} : i, j \in 0 .. (n - 1)} \ {{i} : i \in 0 .. (n - 1)}

NoFilters(G) == [i \in 1 .. G |-> {}]

NoTypes(n) == [i \in 0 .. (n - 1) |-> 0]

\* Room for every pair of n particles.
AmpleCapacity(n) == (n * (n - 1)) \div 2

\* Particle i at the i-th point, cyclically: distinct neighbours, some pairs
\* at squared distance 1, 2 and 3, some particles at the same place.
Spread(n) == [i \in 0 .. (n - 1) |-> PointSeq[(i % Len(PointSeq)) + 1]]

\* All particles at one place.
Cluster(n) == [i \in 0 .. (n - 1) |-> PointSeq[1]]

Input(n, t, csq, useCutoff, pos, E, types, filters, G, gd, bd, cap) ==
    [n |-> n, t |-> t, csq |-> csq, useCutoff |-> useCutoff, pos |-> pos, E |-> E,
     types |-> types, filters |-> filters, G |-> G, gd |-> gd, bd |-> bd,
     cap |-> cap]

\* Any positions, tile width and cutoff; one worker.
GeometryInputs ==
    UNION {{Input(n, t, csq, TRUE, pos, {}, NoTypes(n), NoFilters(MaxGroup), MaxGroup,
                  1, 1, AmpleCapacity(n)) :
                pos \in [0 .. (n - 1) -> Points]} :
           <<n, t, csq>> \in (0 .. MaxAtoms) \X (1 .. MaxTile) \X CutoffChoices}

\* Any set of up to MaxExclusions excluded pairs, with and without a cutoff.
ExclusionInputs ==
    UNION {{Input(n, t, csq, useCutoff, Spread(n), E, NoTypes(n), NoFilters(MaxGroup),
                  MaxGroup, 1, 1, AmpleCapacity(n)) :
                E \in {X \in SUBSET AllPairs(n) :
                          Cardinality(X) >= 1 /\ Cardinality(X) <= MaxExclusions}} :
           <<n, t, csq, useCutoff>> \in
               (0 .. MaxAtoms) \X (1 .. MaxTile) \X CutoffChoices \X BOOLEAN}

\* Any particle types and any filter for every role; no cutoff.
FilterInputs ==
    UNION {{Input(n, 1, 1, FALSE, Spread(n), {}, types, filters, G, 1, 1, 0) :
                <<types, filters>> \in
                    [0 .. (n - 1) -> Types] \X [1 .. G -> SUBSET Types]} :
           <<n, G>> \in (0 .. MaxAtoms) \X (2 .. MaxGroup)}

\* Any grid and block size, without a cutoff (only computeInteraction runs).
NoCutoffInputs ==
    {Input(n, 1, 1, FALSE, Spread(n), {}, NoTypes(n), NoFilters(G), G, gd, bd, 0) :
        <<n, G, gd, bd>> \in
            (0 .. MaxAtoms) \X (2 .. MaxGroup) \X (1 .. MaxGrid) \X (1 .. MaxBlock)}

\* Any grid and block size for the whole pipeline, with ample and with
\* scarce capacity.
ParallelInputs ==
    UNION {{Input(n, t, csq, TRUE, pos, {}, NoTypes(n), NoFilters(MaxGroup), MaxGroup,
                  gd, bd, cap) :
                <<pos, cap>> \in {Spread(n), Cluster(n)} \X {1, AmpleCapacity(n)}} :
           <<n, t, csq, gd, bd>> \in
               (0 .. MaxParallelAtoms) \X (1 .. MaxTile) \X {3, 4} \X (1 .. MaxGrid)
                   \X (1 .. MaxBlock)}

\* Any capacity up to MaxScarce; one worker.
OverflowInputs ==
    UNION {{Input(n, t, csq, TRUE, pos, E, NoTypes(n), NoFilters(MaxGroup), MaxGroup,
                  1, 1, cap) :
                <<pos, E>> \in {Spread(n), Cluster(n)} \X {{}, {{0, 1}}}} :
           <<n, t, csq, cap>> \in
               (0 .. MaxAtoms) \X (1 .. MaxTile) \X {3, 4} \X (0 .. MaxScarce)}

\* More particles than one block of threads has, so that
\* computeNeighborStartIndices runs several windows; one block, with ample and
\* with scarce capacity.
ManyWindowInputs ==
    {Input(MaxAtoms, MaxTile, 3, TRUE, Cluster(MaxAtoms), {}, NoTypes(MaxAtoms),
           NoFilters(G), G, 1, MaxBlock, cap) :
        <<G, cap>> \in (2 .. MaxGroup) \X {1, AmpleCapacity(MaxAtoms)}}

\* Several blocks of several threads with an excluded pair; no cutoff.
ParallelExclusionInputs ==
    {Input(n, 1, 1, FALSE, Spread(n), {{0, n - 1}}, NoTypes(n), NoFilters(G), G,
           MaxGrid, MaxBlock, 0) :
        <<n, G>> \in (3 .. MaxAtoms) \X (2 .. MaxGroup)}

Inputs ==
    GeometryInputs \cup ExclusionInputs \cup FilterInputs \cup NoCutoffInputs
        \cup ParallelInputs \cup OverflowInputs \cup ManyWindowInputs
        \cup ParallelExclusionInputs

StaleVec == <<7, 7, 7>>

KernelInit(in) ==
        /\ cfg = MakeCfg(in.n, in.t, in.csq, in.useCutoff, in.pos, in.E, in.types,
                         in.filters, in.G, in.gd, in.bd)
        /\ stage = "idle"
        /\ wk = [w \in 0 .. (in.gd * in.bd - 1) |-> [pc |-> "done"]]
        /\ maxNeighborPairs = in.cap
        /\ blockCenter = [b \in 0 .. (NumBlocksOf(in.n, in.t) - 1) |-> StaleVec]
        /\ blockBoundingBox = [b \in 0 .. (NumBlocksOf(in.n, in.t) - 1) |-> StaleVec]
        /\ numNeighborPairs \in {0, 5}
        /\ neighborPairs = [k \in 0 .. (in.cap - 1) |-> <<-1, -1>>]
        /\ numNeighborsForAtom = [a \in 0 .. (in.n - 1) |-> -1]
        /\ neighborStartIndex = [a \in 0 .. in.n |-> -1]
        /\ neighbors = [k \in 0 .. (in.cap - 1) |-> -1]
        /\ posBuffer = [t \in 0 .. (in.bd - 1) |-> 0]
        /\ forceBuffers = [k \in 0 .. (3 * NumBlocksOf(in.n, in.t) * in.t - 1) |->
                              <<0, 0, 0, 0>>]
        /\ energyBuffer = [w \in 0 .. (in.gd * in.bd - 1) |-> 0]
        /\ evaluated = EmptyBag
        /\ outOfBounds = {}
        /\ attempts = 0
        /\ workDone = EmptyBag

Init ==
    /\ \E in \in Inputs : KernelInit(in)
    /\ gayBerne = [pc |-> "unused"]
    /\ scan = [pc |-> "unused"]

\* The kernel taken as finished as soon as one of its workers has returned.
AllDoneAnyWorker == \E w \in Workers : wk[w].pc = "done"

AllDone == \A w \in Workers : wk[w].pc = "done"

\* ------------------------------------------------------------------ findBlockBounds
HostLaunchFindBlockBounds ==
    /\ stage = "idle"
    /\ USE_CUTOFF
    /\ stage' = "findBlockBounds"
    /\ wk' = [w \in Workers |-> [pc |-> "run", index |-> w]]
    /\ attempts' = attempts + 1
    /\ UNCHANGED <<cfg, maxNeighborPairs, blockCenter, blockBoundingBox,
                   numNeighborPairs, neighborPairs, numNeighborsForAtom,
                   neighborStartIndex, neighbors, posBuffer, forceBuffers,
                   energyBuffer, evaluated, outOfBounds, gayBerne, scan, workDone>>

\* The tile's first particle alone: the loop over the others left out.
TileBoundsFirstParticle(i, last, minPos, maxPos) == [minPos |-> minPos, maxPos |-> maxPos]

\* The loop over the particles base+1 .. last-1 of a tile.
RECURSIVE TileBounds(_, _, _, _)
TileBounds(i, last, minPos, maxPos) ==
    IF i >= last THEN [minPos |-> minPos, maxPos |-> maxPos]
    ELSE LET pos == posq[i]
         IN  TileBounds(i + 1, last,
                 [k \in 1 .. 3 |-> Min2(minPos[k], pos[k])],
                 [k \in 1 .. 3 |-> Max2(maxPos[k], pos[k])])

\* One iteration of the while loop: the bounding box of tile index.
FindBlockBoundsTile(w) ==
    /\ stage = "findBlockBounds"
    /\ wk[w].pc = "run"
    /\ LET index == wk[w].index
           base == index * TILE_SIZE
       IN  /\ base < NUM_ATOMS
           /\ LET last == Min2(base + TILE_SIZE, NUM_ATOMS)
                  bounds == TileBounds(base + 1, last, posq[base], posq[base])
              IN  /\ blockBoundingBox' =
                         [blockBoundingBox EXCEPT ![index] =
                             [k \in 1 .. 3 |-> bounds.maxPos[k] - bounds.minPos[k]]]
                  /\ blockCenter' =
                         [blockCenter EXCEPT ![index] =
                             [k \in 1 .. 3 |-> bounds.maxPos[k] + bounds.minPos[k]]]
           /\ wk' = [wk EXCEPT ![w].index = index + blockDim * gridDim]
    /\ workDone' = workDone (+) SetToBag({<<"findBlockBounds", wk[w].index>>})
    /\ UNCHANGED <<cfg, stage, maxNeighborPairs, numNeighborPairs, neighborPairs,
                   numNeighborsForAtom, neighborStartIndex, neighbors, posBuffer,
                   forceBuffers, energyBuffer, evaluated, outOfBounds,
                   attempts, gayBerne, scan>>

\* The counter left as the previous invocation left it.
ResetPairCountNever(w, count) == count

\* if (blockIdx.x == 0 && threadIdx.x == 0) *numNeighborPairs = 0
ResetPairCount(w, count) == IF blockIdx(w) = 0 /\ threadIdx(w) = 0 THEN 0 ELSE count

\* The loop has ended: thread 0 of block 0 clears the pair counter.
FindBlockBoundsExit(w) ==
    /\ stage = "findBlockBounds"
    /\ wk[w].pc = "run"
    /\ wk[w].index * TILE_SIZE >= NUM_ATOMS
    /\ numNeighborPairs' = ResetPairCount(w, numNeighborPairs)
    /\ wk' = [wk EXCEPT ![w] = [pc |-> "done"]]
    /\ UNCHANGED <<cfg, stage, maxNeighborPairs, blockCenter, blockBoundingBox,
                   neighborPairs, numNeighborsForAtom, neighborStartIndex, neighbors,
                   posBuffer, forceBuffers, energyBuffer, evaluated, outOfBounds,
                   attempts, gayBerne, scan, workDone>>

\* ------------------------------------------------------------------ findNeighbors
HostLaunchFindNeighbors ==
    /\ stage = "findBlockBounds"
    /\ AllDone
    /\ stage' = "findNeighbors"
    /\ wk' = [w \in Workers |->
                 [pc |-> "run", atom1 |-> w, block2 |-> w \div TILE_SIZE,
                  totalNeighborsForAtom1 |-> 0]]
    /\ UNCHANGED <<cfg, maxNeighborPairs, blockCenter, blockBoundingBox,
                   numNeighborPairs, neighborPairs, numNeighborsForAtom,
                   neighborStartIndex, neighbors, posBuffer, forceBuffers,
                   energyBuffer, evaluated, outOfBounds, attempts, gayBerne, scan, workDone>>

\* The box-vs-box test without the clamp at 0.
BlocksWithinCutoffUnclamped(block1, block2) ==
    LET blockDelta ==
            [k \in 1 .. 3 |->
                Abs(blockCenter[block1][k] - blockCenter[block2][k])
                    - blockBoundingBox[block1][k] - blockBoundingBox[block2][k]]
    IN  blockDelta[1] * blockDelta[1] + blockDelta[2] * blockDelta[2]
            + blockDelta[3] * blockDelta[3] < 4 * CUTOFF_SQUARED

\* The box-vs-box test of tile block1 against tile block2 (doubled lengths).
BlocksWithinCutoff(block1, block2) ==
    LET blockDelta ==
            [k \in 1 .. 3 |->
                Max2(0, Abs(blockCenter[block1][k] - blockCenter[block2][k])
                        - blockBoundingBox[block1][k] - blockBoundingBox[block2][k])]
    IN  blockDelta[1] * blockDelta[1] + blockDelta[2] * blockDelta[2]
            + blockDelta[3] * blockDelta[3] < 4 * CUTOFF_SQUARED

\* The distance test with <= in place of <.
IncludeAtomAtCutoff(atom1, atom2) ==
    LET atomDelta == delta(posq[atom1], posq[atom2])
        includeAtom == atom2 > atom1 /\ atom2 < NUM_ATOMS
                           /\ atomDelta.w <= CUTOFF_SQUARED
    IN  IF USE_EXCLUSIONS /\ includeAtom
        THEN ~isInteractionExcluded(atom1, atom2)
        ELSE includeAtom

\* Whether findNeighbors takes atom2 as a neighbor of atom1.
IncludeAtom(atom1, atom2) ==
    LET atomDelta == delta(posq[atom1], posq[atom2])
        includeAtom == atom2 > atom1 /\ atom2 < NUM_ATOMS
                           /\ atomDelta.w < CUTOFF_SQUARED
    IN  IF USE_EXCLUSIONS /\ includeAtom
        THEN ~isInteractionExcluded(atom1, atom2)
        ELSE includeAtom

\* The loop over the particles of a tile: included[0 .. numIncluded).
RECURSIVE IncludedAtoms(_, _, _)
IncludedAtoms(atom1, atom2, end) ==
    IF atom2 >= end THEN <<>>
    ELSE (IF IncludeAtom(atom1, atom2) THEN <<atom2>> ELSE <<>>)
             \o IncludedAtoms(atom1, atom2 + 1, end)

\* The counter advanced only when the reservation fits the buffer.
ReserveSlotsIfRoom(count, numIncluded) ==
    IF count + numIncluded <= maxNeighborPairs THEN count + numIncluded ELSE count

\* atomicAdd(numNeighborPairs, numIncluded): the counter after the reservation.
ReserveSlots(count, numIncluded) == count + numIncluded

\* The stride of one block instead of the whole grid.
NextAtomBlockStride(atom1) == atom1 + blockDim

\* atom1 += blockDim.x*gridDim.x
NextAtom(atom1) == atom1 + blockDim * gridDim

\* The reservation tested on its first slot only.
ReservationFitsFirstSlot(baseIndex, numIncluded) == baseIndex < maxNeighborPairs

\* if (baseIndex+numIncluded <= maxNeighborPairs)
ReservationFits(baseIndex, numIncluded) == baseIndex + numIncluded <= maxNeighborPairs

\* One iteration of the loop over block2 for atom1, and, after the last tile,
\* the write of atom1's count and the step to the worker's next atom.
FindNeighborsBlock(w) ==
    /\ stage = "findNeighbors"
    /\ wk[w].pc = "run"
    /\ wk[w].atom1 < NUM_ATOMS
    /\ LET atom1 == wk[w].atom1
           block1 == atom1 \div TILE_SIZE
           block2 == wk[w].block2
           included ==
               IF BlocksWithinCutoff(block1, block2)
               THEN IncludedAtoms(atom1, block2 * TILE_SIZE, (block2 + 1) * TILE_SIZE)
               ELSE <<>>
           numIncluded == Len(included)
           baseIndex == numNeighborPairs
           total == wk[w].totalNeighborsForAtom1 + numIncluded
           nextAtom == NextAtom(atom1)
       IN  /\ numNeighborPairs' = ReserveSlots(numNeighborPairs, numIncluded)
           /\ IF numIncluded > 0 /\ ReservationFits(baseIndex, numIncluded)
              THEN /\ neighborPairs' =
                          [k \in DOMAIN neighborPairs |->
                              IF k >= baseIndex /\ k < baseIndex + numIncluded
                              THEN <<atom1, included[k - baseIndex + 1]>>
                              ELSE neighborPairs[k]]
                   /\ outOfBounds' =
                          outOfBounds \cup
                              {<<"neighborPairs", k>> :
                                  k \in (baseIndex .. (baseIndex + numIncluded - 1))
                                            \ DOMAIN neighborPairs}
              ELSE UNCHANGED <<neighborPairs, outOfBounds>>
           /\ IF block2 + 1 < NUM_BLOCKS
              THEN /\ wk' = [wk EXCEPT ![w].block2 = block2 + 1,
                                       ![w].totalNeighborsForAtom1 = total]
                   /\ UNCHANGED <<numNeighborsForAtom, workDone>>
              ELSE /\ numNeighborsForAtom' = [numNeighborsForAtom EXCEPT ![atom1] = total]
                   /\ workDone' = workDone (+) SetToBag({<<"findNeighbors", atom1>>})
                   /\ wk' = [wk EXCEPT ![w].atom1 = nextAtom,
                                       ![w].block2 = nextAtom \div TILE_SIZE,
                                       ![w].totalNeighborsForAtom1 = 0]
    /\ UNCHANGED <<cfg, stage, maxNeighborPairs, blockCenter, blockBoundingBox,
                   neighborStartIndex, neighbors, posBuffer, forceBuffers,
                   energyBuffer, evaluated, attempts, gayBerne, scan>>

FindNeighborsExit(w) ==
    /\ stage = "findNeighbors"
    /\ wk[w].pc = "run"
    /\ wk[w].atom1 >= NUM_ATOMS
    /\ wk' = [wk EXCEPT ![w] = [pc |-> "done"]]
    /\ UNCHANGED <<cfg, stage, maxNeighborPairs, blockCenter, blockBoundingBox,
                   numNeighborPairs, neighborPairs, numNeighborsForAtom,
                   neighborStartIndex, neighbors, posBuffer, forceBuffers,
                   energyBuffer, evaluated, outOfBounds, attempts, gayBerne, scan, workDone>>

\* ------------------------------------------------------------------ computeNeighborStartIndices
\* The kernel runs as a single block: its threads are the workers of block 0.
Threads == 0 .. (blockDim - 1)

\* Where a thread resumes after the loop test "startAtom < NUM_ATOMS".
WindowEntry(startAtom) == IF startAtom < NUM_ATOMS THEN "load" ELSE "exit"

\* Where a thread resumes after the loop test "step < blockDim.x".
ScanEntry(step) == IF step < blockDim THEN "scanRead" ELSE "write"

HostLaunchComputeNeighborStartIndices ==
    /\ stage = "findNeighbors"
    /\ AllDone
    /\ stage' = "computeNeighborStartIndices"
    /\ wk' = [w \in Workers |->
                 IF w \in Threads
                 THEN [pc |-> WindowEntry(0), startAtom |-> 0, step |-> 1, add |-> 0,
                       globalOffset |-> 0, resume |-> "none"]
                 ELSE [pc |-> "done"]]
    /\ UNCHANGED <<cfg, maxNeighborPairs, blockCenter, blockBoundingBox,
                   numNeighborPairs, neighborPairs, numNeighborsForAtom,
                   neighborStartIndex, neighbors, posBuffer, forceBuffers,
                   energyBuffer, evaluated, outOfBounds, attempts, gayBerne, scan, workDone>>

\* A thread without a particle in the window leaving the loop at once.
StartIndicesLoadOrBreak(t) ==
    /\ stage = "computeNeighborStartIndices"
    /\ t \in Threads
    /\ wk[t].pc = "load"
    /\ LET globalIndex == wk[t].startAtom + t
       IN  IF globalIndex < NUM_ATOMS
           THEN /\ posBuffer' = [posBuffer EXCEPT ![t] = numNeighborsForAtom[globalIndex]]
                /\ wk' = [wk EXCEPT ![t].pc = "barrier", ![t].step = 1,
                                    ![t].resume = "scan"]
           ELSE /\ wk' = [wk EXCEPT ![t].pc = "exit"]
                /\ UNCHANGED posBuffer
    /\ UNCHANGED <<cfg, stage, maxNeighborPairs, blockCenter, blockBoundingBox,
                   numNeighborPairs, neighborPairs, numNeighborsForAtom,
                   neighborStartIndex, neighbors, forceBuffers, energyBuffer,
                   evaluated, outOfBounds, attempts, gayBerne, scan, workDone>>

\* posBuffer[threadIdx.x] = count of the thread's particle; then __syncthreads.
StartIndicesLoad(t) ==
    /\ stage = "computeNeighborStartIndices"
    /\ t \in Threads
    /\ wk[t].pc = "load"
    /\ LET globalIndex == wk[t].startAtom + t
       IN  posBuffer' = [posBuffer EXCEPT ![t] =
                            IF globalIndex < NUM_ATOMS
                            THEN numNeighborsForAtom[globalIndex] ELSE 0]
    /\ wk' = [wk EXCEPT ![t].pc = "barrier", ![t].step = 1, ![t].resume = "scan"]
    /\ UNCHANGED <<cfg, stage, maxNeighborPairs, blockCenter, blockBoundingBox,
                   numNeighborPairs, neighborPairs, numNeighborsForAtom,
                   neighborStartIndex, neighbors, forceBuffers, energyBuffer,
                   evaluated, outOfBounds, attempts, gayBerne, scan, workDone>>

\* add = posBuffer[threadIdx.x-step]; then __syncthreads.
StartIndicesScanRead(t) ==
    /\ stage = "computeNeighborStartIndices"
    /\ t \in Threads
    /\ wk[t].pc = "scanRead"
    /\ wk' = [wk EXCEPT ![t].add = IF t >= wk[t].step
                                   THEN posBuffer[t - wk[t].step] ELSE 0,
                        ![t].pc = "barrier", ![t].resume = "scanWrite"]
    /\ UNCHANGED <<cfg, stage, maxNeighborPairs, blockCenter, blockBoundingBox,
                   numNeighborPairs, neighborPairs, numNeighborsForAtom,
                   neighborStartIndex, neighbors, posBuffer, forceBuffers,
                   energyBuffer, evaluated, outOfBounds, attempts, gayBerne, scan, workDone>>

\* posBuffer[threadIdx.x] += add; then __syncthreads and step *= 2.
StartIndicesScanWrite(t) ==
    /\ stage = "computeNeighborStartIndices"
    /\ t \in Threads
    /\ wk[t].pc = "scanWrite"
    /\ posBuffer' = [posBuffer EXCEPT ![t] = posBuffer[t] + wk[t].add]
    /\ wk' = [wk EXCEPT ![t].pc = "barrier", ![t].step = 2 * wk[t].step,
                        ![t].resume = "scan"]
    /\ UNCHANGED <<cfg, stage, maxNeighborPairs, blockCenter, blockBoundingBox,
                   numNeighborPairs, neighborPairs, numNeighborsForAtom,
                   neighborStartIndex, neighbors, forceBuffers, energyBuffer,
                   evaluated, outOfBounds, attempts, gayBerne, scan, workDone>>

\* __syncthreads: every thread of the block has arrived; all of them go on.
StartIndicesBarrier ==
    /\ stage = "computeNeighborStartIndices"
    /\ \A t \in Threads : wk[t].pc = "barrier"
    /\ wk' = [w \in Workers |->
                 IF w \in Threads
                 THEN [wk[w] EXCEPT !.pc = IF wk[w].resume = "scan"
                                           THEN ScanEntry(wk[w].step)
                                           ELSE wk[w].resume,
                                    !.resume = "none"]
                 ELSE wk[w]]
    /\ UNCHANGED <<cfg, stage, maxNeighborPairs, blockCenter, blockBoundingBox,
                   numNeighborPairs, neighborPairs, numNeighborsForAtom,
                   neighborStartIndex, neighbors, posBuffer, forceBuffers,
                   energyBuffer, evaluated, outOfBounds, attempts, gayBerne, scan, workDone>>

\* The results of one window: the start index, the cleared counter, and the
\* running offset read from the last thread's slot of posBuffer.
StartIndicesWrite(t) ==
    /\ stage = "computeNeighborStartIndices"
    /\ t \in Threads
    /\ wk[t].pc = "write"
    /\ LET globalIndex == wk[t].startAtom + t
           nextStart == wk[t].startAtom + blockDim
       IN  /\ neighborStartIndex' =
                  IF globalIndex < NUM_ATOMS
                  THEN [neighborStartIndex EXCEPT
                           ![globalIndex + 1] = posBuffer[t] + wk[t].globalOffset]
                  ELSE neighborStartIndex
           /\ IF globalIndex \in DOMAIN numNeighborsForAtom
              THEN /\ numNeighborsForAtom' =
                          [numNeighborsForAtom EXCEPT ![globalIndex] = 0]
                   /\ UNCHANGED outOfBounds
              ELSE /\ outOfBounds' =
                          outOfBounds \cup {<<"numNeighborsForAtom", globalIndex>>}
                   /\ UNCHANGED numNeighborsForAtom
           /\ wk' = [wk EXCEPT
                        ![t].globalOffset = wk[t].globalOffset + posBuffer[blockDim - 1],
                        ![t].startAtom = nextStart,
                        ![t].pc = WindowEntry(nextStart)]
    /\ UNCHANGED <<cfg, stage, maxNeighborPairs, blockCenter, blockBoundingBox,
                   numNeighborPairs, neighborPairs, neighbors, posBuffer,
                   forceBuffers, energyBuffer, evaluated, attempts, gayBerne, scan, workDone>>

\* After the last window thread 0 writes neighborStartIndex[0].
StartIndicesExit(t) ==
    /\ stage = "computeNeighborStartIndices"
    /\ t \in Threads
    /\ wk[t].pc = "exit"
    /\ neighborStartIndex' =
           IF t = 0 THEN [neighborStartIndex EXCEPT ![0] = 0] ELSE neighborStartIndex
    /\ wk' = [wk EXCEPT ![t] = [pc |-> "done"]]
    /\ UNCHANGED <<cfg, stage, maxNeighborPairs, blockCenter, blockBoundingBox,
                   numNeighborPairs, neighborPairs, numNeighborsForAtom, neighbors,
                   posBuffer, forceBuffers, energyBuffer, evaluated, outOfBounds,
                   attempts, gayBerne, scan, workDone>>

\* ------------------------------------------------------------------ copyPairsToNeighborList
HostLaunchCopyPairsToNeighborList ==
    /\ stage = "computeNeighborStartIndices"
    /\ AllDone
    /\ stage' = "copyPairsToNeighborList"
    /\ wk' = [w \in Workers |-> [pc |-> "run", index |-> w]]
    /\ UNCHANGED <<cfg, maxNeighborPairs, blockCenter, blockBoundingBox,
                   numNeighborPairs, neighborPairs, numNeighborsForAtom,
                   neighborStartIndex, neighbors, posBuffer, forceBuffers,
                   energyBuffer, evaluated, outOfBounds, attempts, gayBerne, scan, workDone>>

\* The overflow test off by one.
CopyPairsOverflowLate(actualPairs) == actualPairs > maxNeighborPairs + 1

\* The test that makes every worker return without writing.
CopyPairsOverflow(actualPairs) == actualPairs > maxNeighborPairs

\* actualPairs > maxNeighborPairs: the worker returns at once.
CopyPairsReturn(w) ==
    /\ stage = "copyPairsToNeighborList"
    /\ wk[w].pc = "run"
    /\ CopyPairsOverflow(numNeighborPairs)
    /\ wk' = [wk EXCEPT ![w] = [pc |-> "done"]]
    /\ UNCHANGED <<cfg, stage, maxNeighborPairs, blockCenter, blockBoundingBox,
                   numNeighborPairs, neighborPairs, numNeighborsForAtom,
                   neighborStartIndex, neighbors, posBuffer, forceBuffers,
                   energyBuffer, evaluated, outOfBounds, attempts, gayBerne, scan, workDone>>

\* One iteration of the loop: pair index goes to its particle's next free slot.
CopyPairsCopy(w) ==
    /\ stage = "copyPairsToNeighborList"
    /\ wk[w].pc = "run"
    /\ ~CopyPairsOverflow(numNeighborPairs)
    /\ wk[w].index < numNeighborPairs
    /\ IF /\ wk[w].index \in DOMAIN neighborPairs
          /\ neighborPairs[wk[w].index][1] \in DOMAIN numNeighborsForAtom
       THEN LET pair == neighborPairs[wk[w].index]
                startIndex == neighborStartIndex[pair[1]]
                offset == numNeighborsForAtom[pair[1]]
            IN  /\ numNeighborsForAtom' =
                       [numNeighborsForAtom EXCEPT ![pair[1]] = offset + 1]
                /\ IF startIndex + offset \in DOMAIN neighbors
                   THEN /\ neighbors' =
                               [neighbors EXCEPT ![startIndex + offset] = pair[2]]
                        /\ UNCHANGED outOfBounds
                   ELSE /\ outOfBounds' =
                               outOfBounds \cup {<<"neighbors", startIndex + offset>>}
                        /\ UNCHANGED neighbors
       ELSE \* a slot that was never written, or one beyond the buffer
            /\ outOfBounds' = outOfBounds \cup {<<"neighborPairs", wk[w].index>>}
            /\ UNCHANGED <<numNeighborsForAtom, neighbors>>
    /\ wk' = [wk EXCEPT ![w].index = wk[w].index + blockDim * gridDim]
    /\ UNCHANGED <<cfg, stage, maxNeighborPairs, blockCenter, blockBoundingBox,
                   numNeighborPairs, neighborPairs, neighborStartIndex, posBuffer,
                   forceBuffers, energyBuffer, evaluated, attempts, gayBerne, scan, workDone>>

CopyPairsExit(w) ==
    /\ stage = "copyPairsToNeighborList"
    /\ wk[w].pc = "run"
    /\ ~CopyPairsOverflow(numNeighborPairs)
    /\ wk[w].index >= numNeighborPairs
    /\ wk' = [wk EXCEPT ![w] = [pc |-> "done"]]
    /\ UNCHANGED <<cfg, stage, maxNeighborPairs, blockCenter, blockBoundingBox,
                   numNeighborPairs, neighborPairs, numNeighborsForAtom,
                   neighborStartIndex, neighbors, posBuffer, forceBuffers,
                   energyBuffer, evaluated, outOfBounds, attempts, gayBerne, scan, workDone>>

\* ------------------------------------------------------------------ fixed point
Limb == 256 * 256

\* A 64-bit word as four 16-bit limbs, least significant first.
ZeroU64 == <<0, 0, 0, 0>>

\* The add that sticks at the largest word instead of wrapping around.
AddU64Saturating(a, b) ==
    LET s1 == a[1] + b[1]
        s2 == a[2] + b[2] + (s1 \div Limb)
        s3 == a[3] + b[3] + (s2 \div Limb)
        s4 == a[4] + b[4] + (s3 \div Limb)
    IN  IF s4 >= Limb
        THEN <<Limb - 1, Limb - 1, Limb - 1, Limb - 1>>
        ELSE <<s1 % Limb, s2 % Limb, s3 % Limb, s4 % Limb>>

AddU64(a, b) ==
    LET s1 == a[1] + b[1]
        s2 == a[2] + b[2] + (s1 \div Limb)
        s3 == a[3] + b[3] + (s2 \div Limb)
        s4 == a[4] + b[4] + (s3 \div Limb)
    IN  <<s1 % Limb, s2 % Limb, s3 % Limb, s4 % Limb>>

\* Two's complement.
NegU64(a) ==
    AddU64(<<Limb - 1 - a[1], Limb - 1 - a[2], Limb - 1 - a[3], Limb - 1 - a[4]>>,
           <<1, 0, 0, 0>>)

\* A force component: whole + half / 2^33, whole and half of one sign.
WholeForce(n) == [whole |-> n, half |-> 0]

\* The conversion rounding down instead of towards zero.
ToFixedPointFloor(force) ==
    LET fraction == Abs(force.half) \div 2
        up == IF force.half < 0 THEN Abs(force.half) % 2 ELSE 0
        magnitude == AddU64(<<fraction % Limb, fraction \div Limb,
                              Abs(force.whole) % Limb, Abs(force.whole) \div Limb>>,
                            <<up, 0, 0, 0>>)
    IN  IF force.whole < 0 \/ force.half < 0 THEN NegU64(magnitude) ELSE magnitude

\* (unsigned long long) (long long) (force*0x100000000): the product is cut
\* off towards zero at 2^-32 and the signed value is taken modulo 2^64.
ToFixedPoint(force) ==
    LET fraction == Abs(force.half) \div 2
        magnitude == <<fraction % Limb, fraction \div Limb,
                       Abs(force.whole) % Limb, Abs(force.whole) \div Limb>>
    IN  IF force.whole < 0 \/ force.half < 0 THEN NegU64(magnitude) ELSE magnitude

\* storeForce: three atomic adds.
storeForce(buffers, atom, force) ==
    [buffers EXCEPT
        ![atom] = AddU64(@, ToFixedPoint(force[1])),
        ![atom + PADDED_NUM_ATOMS] = AddU64(@, ToFixedPoint(force[2])),
        ![atom + 2 * PADDED_NUM_ATOMS] = AddU64(@, ToFixedPoint(force[3]))]

\* ------------------------------------------------------------------ computeInteraction
particlesPerSet == cfg.particlesPerSet

RECURSIVE Binomial(_, _)
Binomial(n, k) ==
    IF k = 0 THEN 1
    ELSE IF n < k THEN 0
    ELSE Binomial(n - 1, k - 1) + Binomial(n - 1, k)

\* NUM_CANDIDATE_COMBINATIONS: the combinations of particlesPerSet-1 of the pool.
NumCandidateCombinations(numNeighbors) == Binomial(numNeighbors, particlesPerSet - 1)

\* Every index sent to the first tuple.
UnrankFirstTuple(index, lowest, n, k) == [i \in 1 .. k |-> lowest + i - 1]

\* Unranking: the index-th ascending k-tuple of positions lowest .. n-1,
\* in lexicographic order.
RECURSIVE Unrank(_, _, _, _)
Unrank(index, lowest, n, k) ==
    IF k = 0 THEN <<>>
    ELSE LET withLowest == Binomial(n - lowest - 1, k - 1)
         IN  IF index < withLowest
             THEN <<lowest>> \o Unrank(index, lowest + 1, n, k - 1)
             ELSE Unrank(index - withLowest, lowest + 1, n, k)

\* FIND_ATOMS_FOR_COMBINATION_INDEX: p1 and the pool members the index selects;
\* the pool of p1 is the numNeighbors particles after it.
FindAtomsForCombinationIndex(p1, index, numNeighbors) ==
    LET a == Unrank(index, 0, numNeighbors, particlesPerSet - 1)
    IN  <<p1>> \o [i \in 1 .. Len(a) |-> p1 + 1 + a[i]]

\* IS_VALID_COMBINATION: the canonical (ascending) order of the members.
IsValidCombination(p) == \A i \in 1 .. (Len(p) - 1) : p[i] < p[i + 1]

\* VERIFY_CUTOFF: every pair of members is closer than the cutoff.
VerifyCutoff(p) ==
    \A i, j \in 1 .. Len(p) :
        i < j => delta(posq[p[i]], posq[p[j]]).w < CUTOFF_SQUARED

\* COMPUTE_TYPE_INDEX
ComputeTypeIndex(p) == TypeIndexOf([i \in 1 .. Len(p) |-> cfg.particleTypes[p[i]]])

\* VERIFY_EXCLUSIONS: no pair of members is excluded.
VerifyExclusions(p) ==
    \A i, j \in 1 .. Len(p) : i < j => ~isInteractionExcluded(p[i], p[j])

\* PERMUTE_ATOMS: atom1 .. atomN, the members in the order of their roles.
PermuteAtoms(p, order) ==
    IF USE_FILTERS
    THEN [i \in 1 .. Len(p) |->
             p[cfg.particleOrder[particlesPerSet * order + (i - 1)] + 1]]
    ELSE p

\* The force the energy expression puts on role i of a group: the sum of
\* the vectors to the other members.
InteractionForce(atoms, i) ==
    LET RECURSIVE Sum(_, _)
        Sum(j, k) == IF j > Len(atoms) THEN 0
                     ELSE (posq[atoms[j]][k] - posq[atoms[i]][k]) + Sum(j + 1, k)
    IN  [k \in 1 .. 3 |-> Sum(1, k)]

\* The energy the expression gives a group.
InteractionEnergy(atoms) == 1

\* COMPUTE_INTERACTION: storeForce for every member of the group.
RECURSIVE StoreForces(_, _, _)
StoreForces(buffers, atoms, i) ==
    IF i > Len(atoms) THEN buffers
    ELSE StoreForces(storeForce(buffers, atoms[i],
                                [k \in 1 .. 3 |->
                                    WholeForce(InteractionForce(atoms, i)[k])]),
                     atoms, i + 1)

\* The lookup with no order of -1: a rejected combination keeps the order 0.
OrderOfCombinationNeverRejects(p) ==
    IF USE_FILTERS THEN Max2(0, cfg.orderIndex[ComputeTypeIndex(p)]) ELSE 0

\* includeInteraction for the candidate p, and the order looked up for it.
OrderOfCombination(p) == IF USE_FILTERS THEN cfg.orderIndex[ComputeTypeIndex(p)] ELSE 0

IncludeInteraction(p) ==
    /\ IsValidCombination(p)
    /\ USE_CUTOFF => VerifyCutoff(p)
    /\ USE_FILTERS => OrderOfCombination(p) # -1
    /\ USE_EXCLUSIONS => VerifyExclusions(p)

\* One candidate fewer than the particles above p1.
NumNeighborsShort(p1) == NUM_ATOMS - p1 - 2

\* int numNeighbors = NUM_ATOMS-p1-1
NumNeighbors(p1) == NUM_ATOMS - p1 - 1

\* The outer loop stepping by one particle instead of by the grid size.
RECURSIVE NextCombinationUnitStride(_, _, _)
NextCombinationUnitStride(p1, index, w) ==
    IF p1 >= NUM_ATOMS THEN [p1 |-> p1, index |-> 0]
    ELSE IF index < NumCandidateCombinations(NumNeighbors(p1))
    THEN [p1 |-> p1, index |-> index]
    ELSE NextCombinationUnitStride(p1 + 1, threadIdx(w), w)

\* The two loop headers: the next (p1, index) the thread has work for.
RECURSIVE NextCombination(_, _, _)
NextCombination(p1, index, w) ==
    IF p1 >= NUM_ATOMS THEN [p1 |-> p1, index |-> 0]
    ELSE IF index < NumCandidateCombinations(NumNeighbors(p1))
    THEN [p1 |-> p1, index |-> index]
    ELSE NextCombination(p1 + gridDim, threadIdx(w), w)

LaunchComputeInteraction ==
    /\ stage' = "computeInteraction"
    /\ wk' = [w \in Workers |->
                 LET first == NextCombination(blockIdx(w), threadIdx(w), w)
                 IN  [pc |-> "run", p1 |-> first.p1, index |-> first.index,
                      energy |-> 0]]
    /\ UNCHANGED <<cfg, maxNeighborPairs, blockCenter, blockBoundingBox,
                   numNeighborPairs, neighborPairs, numNeighborsForAtom,
                   neighborStartIndex, neighbors, posBuffer, forceBuffers,
                   energyBuffer, evaluated, outOfBounds, attempts, gayBerne, scan, workDone>>

\* Without a cutoff no neighbor list is built.
HostLaunchComputeInteractionNoCutoff ==
    /\ stage = "idle"
    /\ ~USE_CUTOFF
    /\ LaunchComputeInteraction

\* The assembled list is within capacity: the interaction is computed.
HostLaunchComputeInteraction ==
    /\ stage = "copyPairsToNeighborList"
    /\ AllDone
    /\ numNeighborPairs <= maxNeighborPairs
    /\ LaunchComputeInteraction

\* The pair count exceeds the capacity: the caller is told to rebuild.
HostCapacityExceeded ==
    /\ stage = "copyPairsToNeighborList"
    /\ AllDone
    /\ numNeighborPairs > maxNeighborPairs
    /\ stage' = "capacityExceeded"
    /\ UNCHANGED <<cfg, wk, maxNeighborPairs, blockCenter, blockBoundingBox,
                   numNeighborPairs, neighborPairs, numNeighborsForAtom,
                   neighborStartIndex, neighbors, posBuffer, forceBuffers,
                   energyBuffer, evaluated, outOfBounds, attempts, gayBerne, scan, workDone>>

\* The caller reallocates to the reported pair count and runs discovery again.
HostRebuild ==
    /\ stage = "capacityExceeded"
    /\ maxNeighborPairs' = numNeighborPairs
    /\ neighborPairs' = [k \in 0 .. (numNeighborPairs - 1) |-> <<-1, -1>>]
    /\ neighbors' = [k \in 0 .. (numNeighborPairs - 1) |-> -1]
    /\ stage' = "idle"
    /\ workDone' = EmptyBag
    /\ UNCHANGED <<cfg, wk, blockCenter, blockBoundingBox, numNeighborPairs,
                   numNeighborsForAtom, neighborStartIndex, posBuffer, forceBuffers,
                   energyBuffer, evaluated, outOfBounds, attempts, gayBerne, scan>>

\* One iteration of the loop over index for p1.
ComputeInteractionStep(w) ==
    /\ stage = "computeInteraction"
    /\ wk[w].pc = "run"
    /\ wk[w].p1 < NUM_ATOMS
    /\ LET p1 == wk[w].p1
           numNeighbors == NumNeighbors(p1)
           p == FindAtomsForCombinationIndex(p1, wk[w].index, numNeighbors)
           includeInteraction == IncludeInteraction(p)
           atoms == PermuteAtoms(p, OrderOfCombination(p))
           next == NextCombination(p1, wk[w].index + blockDim, w)
       IN  /\ forceBuffers' = IF includeInteraction
                              THEN StoreForces(forceBuffers, atoms, 1)
                              ELSE forceBuffers
           /\ evaluated' = IF includeInteraction
                           THEN evaluated (+) SetToBag({[p |-> p, atoms |-> atoms]})
                           ELSE evaluated
           /\ wk' = [wk EXCEPT ![w].p1 = next.p1, ![w].index = next.index,
                               ![w].energy = IF includeInteraction
                                             THEN @ + InteractionEnergy(atoms)
                                             ELSE @]
    /\ workDone' = workDone (+) SetToBag({<<"computeInteraction", wk[w].p1, wk[w].index>>})
    /\ UNCHANGED <<cfg, stage, maxNeighborPairs, blockCenter, blockBoundingBox,
                   numNeighborPairs, neighborPairs, numNeighborsForAtom,
                   neighborStartIndex, neighbors, posBuffer, energyBuffer,
                   outOfBounds, attempts, gayBerne, scan>>

\* The slot every thread of the first block shares with the other blocks.
EnergySlotOfThread(w) == threadIdx(w)

\* blockIdx.x*blockDim.x+threadIdx.x
EnergySlot(w) == blockIdx(w) * blockDim + threadIdx(w)

\* energyBuffer[...] += energy without an atomic: first the slot is read,
ComputeInteractionReadEnergy(w) ==
    /\ stage = "computeInteraction"
    /\ wk[w].pc = "run"
    /\ wk[w].p1 >= NUM_ATOMS
    /\ wk' = [wk EXCEPT ![w] = [pc |-> "add", energy |-> wk[w].energy,
                                 read |-> energyBuffer[EnergySlot(w)]]]
    /\ UNCHANGED <<cfg, stage, maxNeighborPairs, blockCenter, blockBoundingBox,
                   numNeighborPairs, neighborPairs, numNeighborsForAtom,
                   neighborStartIndex, neighbors, posBuffer, forceBuffers,
                   energyBuffer, evaluated, outOfBounds, attempts, gayBerne, scan,
                   workDone>>

\* then what was read plus energy is written back.
ComputeInteractionExit(w) ==
    /\ stage = "computeInteraction"
    /\ wk[w].pc = "add"
    /\ energyBuffer' =
           [energyBuffer EXCEPT ![EnergySlot(w)] = wk[w].read + wk[w].energy]
    /\ wk' = [wk EXCEPT ![w] = [pc |-> "done"]]
    /\ workDone' = workDone (+) SetToBag({<<"energyBuffer", EnergySlot(w)>>})
    /\ UNCHANGED <<cfg, stage, maxNeighborPairs, blockCenter, blockBoundingBox,
                   numNeighborPairs, neighborPairs, numNeighborsForAtom,
                   neighborStartIndex, neighbors, posBuffer, forceBuffers,
                   evaluated, outOfBounds, attempts, gayBerne, scan>>

HostFinish ==
    /\ stage = "computeInteraction"
    /\ AllDone
    /\ stage' = "done"
    /\ UNCHANGED <<cfg, wk, maxNeighborPairs, blockCenter, blockBoundingBox,
                   numNeighborPairs, neighborPairs, numNeighborsForAtom,
                   neighborStartIndex, neighbors, posBuffer, forceBuffers,
                   energyBuffer, evaluated, outOfBounds, attempts, gayBerne, scan, workDone>>

Next ==
    \/ HostLaunchFindBlockBounds
    \/ \E w \in Workers : FindBlockBoundsTile(w)
    \/ \E w \in Workers : FindBlockBoundsExit(w)
    \/ HostLaunchFindNeighbors
    \/ \E w \in Workers : FindNeighborsBlock(w)
    \/ \E w \in Workers : FindNeighborsExit(w)
    \/ HostLaunchComputeNeighborStartIndices
    \/ \E t \in Workers : StartIndicesLoad(t)
    \/ \E t \in Workers : StartIndicesScanRead(t)
    \/ \E t \in Workers : StartIndicesScanWrite(t)
    \/ StartIndicesBarrier
    \/ \E t \in Workers : StartIndicesWrite(t)
    \/ \E t \in Workers : StartIndicesExit(t)
    \/ HostLaunchCopyPairsToNeighborList
    \/ \E w \in Workers : CopyPairsReturn(w)
    \/ \E w \in Workers : CopyPairsCopy(w)
    \/ \E w \in Workers : CopyPairsExit(w)
    \/ HostLaunchComputeInteractionNoCutoff
    \/ HostLaunchComputeInteraction
    \/ HostCapacityExceeded
    \/ HostRebuild
    \/ \E w \in Workers : ComputeInteractionStep(w)
    \/ \E w \in Workers : ComputeInteractionReadEnergy(w)
    \/ \E w \in Workers : ComputeInteractionExit(w)
    \/ HostFinish

Spec == Init /\ [][Next]_vars

\* ------------------------------------------------------------------ computeNeighborStartIndices alone
\* The largest block of the kernel run on its own.
MaxScanBlock == 3

\* The counts findNeighbors may have left for n particles.
NeighborCounts(n) == [0 .. (n - 1) -> 0 .. 1]

RECURSIVE TotalCount(_, _)
TotalCount(counts, n) == IF n = 0 THEN 0 ELSE counts[n - 1] + TotalCount(counts, n - 1)

\* The kernel at its launch, as one block, for any counts.
StartIndicesInit ==
    \E n \in 0 .. MaxAtoms : \E bd \in 1 .. MaxScanBlock : \E counts \in NeighborCounts(n) :
        /\ cfg = MakeCfg(n, 1, 1, TRUE, Cluster(n), {}, NoTypes(n), NoFilters(MaxGroup),
                         MaxGroup, 1, bd)
        /\ stage = "computeNeighborStartIndices"
        /\ wk = [w \in 0 .. (bd - 1) |->
                    [pc |-> IF 0 < n THEN "load" ELSE "exit", startAtom |-> 0,
                     step |-> 1, add |-> 0, globalOffset |-> 0, resume |-> "none"]]
        /\ maxNeighborPairs = AmpleCapacity(n)
        /\ blockCenter = [b \in 0 .. (n - 1) |-> StaleVec]
        /\ blockBoundingBox = [b \in 0 .. (n - 1) |-> StaleVec]
        /\ numNeighborPairs = TotalCount(counts, n)
        /\ neighborPairs = [k \in 0 .. (AmpleCapacity(n) - 1) |-> <<-1, -1>>]
        /\ numNeighborsForAtom = counts
        /\ neighborStartIndex = [a \in 0 .. n |-> -1]
        /\ neighbors = [k \in 0 .. (AmpleCapacity(n) - 1) |-> -1]
        /\ posBuffer = [t \in 0 .. (bd - 1) |-> 0]
        /\ forceBuffers = [k \in 0 .. (3 * n - 1) |-> <<0, 0, 0, 0>>]
        /\ energyBuffer = [w \in 0 .. (bd - 1) |-> 0]
        /\ evaluated = EmptyBag
        /\ outOfBounds = {}
        /\ attempts = 1
        /\ workDone = EmptyBag
        /\ gayBerne = [pc |-> "unused"]
        /\ scan = [pc |-> "unused"]

StartIndicesNext ==
    \/ \E t \in Threads : StartIndicesLoad(t)
    \/ \E t \in Threads : StartIndicesScanRead(t)
    \/ \E t \in Threads : StartIndicesScanWrite(t)
    \/ StartIndicesBarrier
    \/ \E t \in Threads : StartIndicesWrite(t)
    \/ \E t \in Threads : StartIndicesExit(t)

\* A thread of a block that can take a step is run in the end.
StartIndicesFairSpec ==
    StartIndicesInit /\ [][StartIndicesNext]_vars /\ WF_vars(StartIndicesNext)

\* ------------------------------------------------------------------ ReferenceGayBerneForce
\* Lengths are whole numbers of millionths of a unit, so that 1.999999 times a
\* cutoff of whole units is exact.
MicroPerUnit == 1000 * 1000

\* double minAllowedSize = 1.999999*cutoffDistance, in millionths per unit of cutoff
MinAllowedSizeFactor == 1999999

MaxGayBerneParticles == 3

NonbondedMethods == {"NoCutoff", "CutoffNonPeriodic", "CutoffPeriodic"}

\* Cutoffs, in whole units.
GayBerneCutoffs == {1, 2}

\* Box edges, in millionths: just below, at and above 1.999999 times a cutoff.
GayBerneBoxSizes == {1999998, 1999999, 3999997, 4 * MicroPerUnit}

\* Exceptions, as the pairs of particles they replace.
GayBerneExceptionLists(n) == IF n >= 2 THEN {<<>>, <<<<1, 0>>>>} ELSE {<<>>}

\* The exceptions' pairs taken as exclusions in the order they are listed.
GayBerneExclusionsAsListed(exceptions) ==
    {<<exceptions[k][1], exceptions[k][2]>> : k \in 1 .. Len(exceptions)}

\* The constructor: the exceptions' pairs become exclusions, lower index first.
GayBerneExclusions(exceptions) ==
    {<<Min2(exceptions[k][1], exceptions[k][2]), Max2(exceptions[k][1], exceptions[k][2])>> :
        k \in 1 .. Len(exceptions)}

\* The forces vector the caller passes in.
GayBerneForcesBefore(n) == [k \in 0 .. (n - 1) |-> <<k, 0 - k, 1>>]

GayBerneCall(method, cutoff, box, n, exceptions) ==
    [pc |-> "calculateForce", nonbondedMethod |-> method, cutoffDistance |-> cutoff,
     boxVectors |-> box, numParticles |-> n, exceptions |-> exceptions,
     exclusions |-> GayBerneExclusions(exceptions),
     i |-> 1, j |-> 0, e |-> 0, framesComputed |-> FALSE, energy |-> 0,
     forces |-> GayBerneForcesBefore(n), returned |-> "none", calls |-> <<>>]

GayBerneCalls ==
    UNION {{GayBerneCall(method, cutoff, box, n, exceptions) :
                exceptions \in GayBerneExceptionLists(n)} :
           <<method, cutoff, box, n>> \in
               NonbondedMethods \X GayBerneCutoffs
                   \X (GayBerneBoxSizes \X GayBerneBoxSizes \X GayBerneBoxSizes)
                   \X (0 .. MaxGayBerneParticles)}

GayBerneInit ==
    /\ KernelInit(Input(0, 1, 1, FALSE, Spread(0), {}, NoTypes(0), NoFilters(MaxGroup),
                        MaxGroup, 1, 1, 0))
    /\ numNeighborPairs = 0
    /\ gayBerne \in GayBerneCalls
    /\ scan = [pc |-> "unused"]

\* The test on one box vector with the other two left out.
GayBerneBoxTooSmallFirstOnly(g) ==
    g.boxVectors[1] < MinAllowedSizeFactor * g.cutoffDistance

\* boxVectors[0][0] < minAllowedSize || boxVectors[1][1] < ... || boxVectors[2][2] < ...
GayBerneBoxTooSmall(g) ==
    LET minAllowedSize == MinAllowedSizeFactor * g.cutoffDistance
    IN  \/ g.boxVectors[1] < minAllowedSize
        \/ g.boxVectors[2] < minAllowedSize
        \/ g.boxVectors[3] < minAllowedSize

\* The check at the head of calculateForce: throws, or goes on.
GayBerneCheckBox ==
    /\ gayBerne.pc = "calculateForce"
    /\ gayBerne' =
           IF gayBerne.nonbondedMethod = "CutoffPeriodic" /\ GayBerneBoxTooSmall(gayBerne)
           THEN [gayBerne EXCEPT !.pc = "thrown"]
           ELSE [gayBerne EXCEPT !.pc = "computeEllipsoidFrames"]
    /\ UNCHANGED <<kernelVars, scan>>

GayBerneComputeEllipsoidFrames ==
    /\ gayBerne.pc = "computeEllipsoidFrames"
    /\ gayBerne' = [gayBerne EXCEPT !.framesComputed = TRUE, !.pc = "standard",
                                    !.i = 1, !.j = 0]
    /\ UNCHANGED <<kernelVars, scan>>

\* The distance of two particles; particle k stands at k units on the x axis,
\* and a periodic box gives the nearest image.
GayBerneDistance(g, particle1, particle2) ==
    LET d == Abs(particle2 - particle1) * MicroPerUnit
        box == g.boxVectors[1]
    IN  IF g.nonbondedMethod = "CutoffPeriodic"
        THEN Min2(d % box, box - (d % box))
        ELSE d

\* The cutoff test letting through a pair that stands exactly at the cutoff.
GayBerneOneInteractionBeyondOnly(g, particle1, particle2) ==
    IF g.nonbondedMethod # "NoCutoff"
           /\ GayBerneDistance(g, particle1, particle2) > g.cutoffDistance * MicroPerUnit
    THEN 0
    ELSE 1

\* computeOneInteraction: 0 beyond the cutoff, else the pair's energy (1 here);
\* it never writes the forces.
GayBerneOneInteraction(g, particle1, particle2) ==
    IF g.nonbondedMethod # "NoCutoff"
           /\ GayBerneDistance(g, particle1, particle2) >= g.cutoffDistance * MicroPerUnit
    THEN 0
    ELSE 1

\* What one call of computeOneInteraction leaves in the forces vector: the
\* function reads positions and the particles' matrices and writes no force.
GayBerneForcesAfter(g, particle1, particle2) == g.forces

\* The call recorded: its arguments (parameters 0: the combined sigma and
\* epsilon; k: those of exception k) and the energy it returned.
GayBerneCallOf(g, particle1, particle2, parameters) ==
    [particle1 |-> particle1, particle2 |-> particle2, parameters |-> parameters,
     energy |-> GayBerneOneInteraction(g, particle1, particle2)]

\* One iteration of the loops over i and j < i.
GayBerneStandardInteraction ==
    /\ gayBerne.pc = "standard"
    /\ gayBerne.i < gayBerne.numParticles
    /\ LET i == gayBerne.i
           j == gayBerne.j
           excluded == <<j, i>> \in gayBerne.exclusions
           energy == IF excluded
                     THEN gayBerne.energy
                     ELSE gayBerne.energy + GayBerneOneInteraction(gayBerne, i, j)
       IN  gayBerne' = [gayBerne EXCEPT
                           !.energy = energy,
                           !.forces = IF excluded THEN @
                                      ELSE GayBerneForcesAfter(gayBerne, i, j),
                           !.calls = IF excluded THEN @
                                     ELSE Append(@, GayBerneCallOf(gayBerne, i, j, 0)),
                           !.j = IF j + 1 < i THEN j + 1 ELSE 0,
                           !.i = IF j + 1 < i THEN i ELSE i + 1]
    /\ UNCHANGED <<kernelVars, scan>>

GayBerneStandardDone ==
    /\ gayBerne.pc = "standard"
    /\ gayBerne.i >= gayBerne.numParticles
    /\ gayBerne' = [gayBerne EXCEPT !.pc = "exceptions", !.e = 0]
    /\ UNCHANGED <<kernelVars, scan>>

\* One iteration of the loop over the exceptions.
GayBerneException ==
    /\ gayBerne.pc = "exceptions"
    /\ gayBerne.e < Len(gayBerne.exceptions)
    /\ LET ex == gayBerne.exceptions[gayBerne.e + 1]
       IN  gayBerne' = [gayBerne EXCEPT
                           !.energy = @ + GayBerneOneInteraction(gayBerne, ex[1], ex[2]),
                           !.forces = GayBerneForcesAfter(gayBerne, ex[1], ex[2]),
                           !.calls = Append(@, GayBerneCallOf(gayBerne, ex[1], ex[2],
                                                              gayBerne.e + 1)),
                           !.e = @ + 1]
    /\ UNCHANGED <<kernelVars, scan>>

\* return energy
GayBerneReturn ==
    /\ gayBerne.pc = "exceptions"
    /\ gayBerne.e >= Len(gayBerne.exceptions)
    /\ gayBerne' = [gayBerne EXCEPT !.pc = "returned", !.returned = gayBerne.energy]
    /\ UNCHANGED <<kernelVars, scan>>

GayBerneNext ==
    \/ GayBerneCheckBox
    \/ GayBerneComputeEllipsoidFrames
    \/ GayBerneStandardInteraction
    \/ GayBerneStandardDone
    \/ GayBerneException
    \/ GayBerneReturn

GayBerneSpec == GayBerneInit /\ [][GayBerneNext]_vars

\* The exceptions of the largest list.
MaxGayBerneExceptions == 2

\* The ordered pairs of distinct particles an exception can list.
GayBerneOrderedPairs(n) ==
    {pr \in (0 .. (n - 1)) \X (0 .. (n - 1)) : pr[1] # pr[2]}

\* Any list of exceptions, in either order of their particles, repeated
\* pairs included.
GayBerneAnyExceptionLists(n) ==
    UNION {[1 .. len -> GayBerneOrderedPairs(n)] : len \in 0 .. MaxGayBerneExceptions}

\* calculateForce for any exceptions, in a box large enough for every cutoff.
GayBernePairsInit ==
    /\ KernelInit(Input(0, 1, 1, FALSE, Spread(0), {}, NoTypes(0), NoFilters(MaxGroup),
                        MaxGroup, 1, 1, 0))
    /\ numNeighborPairs = 0
    /\ \E method \in NonbondedMethods : \E cutoff \in GayBerneCutoffs :
       \E n \in 0 .. MaxGayBerneParticles : \E exceptions \in GayBerneAnyExceptionLists(n) :
           gayBerne = GayBerneCall(method, cutoff,
                                   <<4 * MicroPerUnit, 4 * MicroPerUnit, 4 * MicroPerUnit>>,
                                   n, exceptions)
    /\ scan = [pc |-> "unused"]

GayBernePairsSpec == GayBernePairsInit /\ [][GayBerneNext]_vars

\* ------------------------------------------------------------------ storeForce alone
\* The calls of one run of storeForce on its own.
MaxStoreCalls == 3

\* The largest whole force whose product with 2^32 is a long long.
LargestWholeForce == (Limb \div 2 - 1) * Limb + (Limb - 1)

\* Force components: one and a half units of 2^-32, the largest whole force,
\* and their negatives.
SmallForces == {[whole |-> 0, half |-> 3], [whole |-> 0, half |-> -3]}

ForceComponents ==
    SmallForces \cup {WholeForce(LargestWholeForce), WholeForce(-LargestWholeForce)}

NegForce(f) == [whole |-> -f.whole, half |-> -f.half]

ForceVectors == {<<a, NegForce(a), b>> : <<a, b>> \in ForceComponents \X SmallForces}

\* Three particles in tiles of two: four padded slots per component, all zero.
StoreForceInit ==
    /\ KernelInit(Input(3, 2, 1, FALSE, Spread(3), {}, NoTypes(3), NoFilters(MaxGroup),
                        MaxGroup, 1, 1, 0))
    /\ gayBerne = [pc |-> "unused"]
    /\ scan = [pc |-> "unused"]

\* One call storeForce(atom, force, forceBuffers).
StoreForceCall ==
    /\ BagCardinality(workDone) < MaxStoreCalls
    /\ \E atom \in 0 .. (NUM_ATOMS - 1) : \E force \in ForceVectors :
           /\ forceBuffers' = storeForce(forceBuffers, atom, force)
           /\ workDone' = workDone (+) SetToBag({<<"storeForce", atom, force>>})
    /\ UNCHANGED <<cfg, stage, wk, maxNeighborPairs, blockCenter, blockBoundingBox,
                   numNeighborPairs, neighborPairs, numNeighborsForAtom,
                   neighborStartIndex, neighbors, posBuffer, energyBuffer,
                   evaluated, outOfBounds, attempts, gayBerne, scan>>

StoreForceNext == StoreForceCall

StoreForceSpec == StoreForceInit /\ [][StoreForceNext]_vars

\* ------------------------------------------------------------------ prefixSum
\* The warp of the model: 32 lanes in the source, fewer here.
MaxWarp == 4

\* #define WARP_SIZE 32
WARP_SIZE == MaxWarp

\* The warps of the largest block of the model.
MaxWarpsPerBlock == 3

\* What a read beyond the end of temp may give.
StaleCounts == {0, 9}

\* What temp and sum hold before they are written.
StaleCount == StaleVec[1]

\* Bit b of the word m.
BitSet(m, b) == (m \div Power(2, b)) % 2 = 1

\* __popc(m): the number of bits set, of the WARP_SIZE bits of a ballot or mask.
Popc(bits) == Cardinality(bits)

\* __ballot(value): one bit per lane of the caller's warp, set where value holds.
RECURSIVE BallotWord(_, _, _)
BallotWord(value, warpStart, l) ==
    IF l >= WARP_SIZE THEN 0
    ELSE (IF value[warpStart + l] THEN Power(2, l) ELSE 0)
             + BallotWord(value, warpStart, l + 1)

Ballot(value, t) == BallotWord(value, (t \div WARP_SIZE) * WARP_SIZE, 0)

\* The count of one warp with the caller's own lane left out of the mask.
WarpCountExclusive(value, t) ==
    LET indexInWarp == t % WARP_SIZE
        warpMask == (1 * Power(2, indexInWarp)) - 1
        ballot == Ballot(value, t)
    IN  Popc({b \in 0 .. (WARP_SIZE - 1) : BitSet(ballot, b) /\ BitSet(warpMask, b)})

\* __popc(__ballot(value)&warpMask) with warpMask = (2<<indexInWarp)-1
WarpCount(value, t) ==
    LET indexInWarp == t % WARP_SIZE
        warpMask == (2 * Power(2, indexInWarp)) - 1
        ballot == Ballot(value, t)
    IN  Popc({b \in 0 .. (WARP_SIZE - 1) : BitSet(ballot, b) /\ BitSet(warpMask, b)})

\* The loop of __shfl_up over the lanes of the first warp: lane l adds the
\* running sum of lane l - offset when l >= offset.
RECURSIVE ShuffleScan(_, _, _)
ShuffleScan(multiWarpSum, offset, numWarps) ==
    IF offset >= numWarps THEN multiWarpSum
    ELSE ShuffleScan([l \in 0 .. (WARP_SIZE - 1) |->
                         IF l >= offset
                         THEN multiWarpSum[l] + multiWarpSum[l - offset]
                         ELSE multiWarpSum[l]],
                     2 * offset, numWarps)

\* One call: the block size, the threads' values and the variant compiled.
PrefixSumCall(n, value, variant) ==
    [pc |-> "prefixSum", blockDim |-> n, value |-> value, variant |-> variant,
     temp |-> [t \in 0 .. (n - 1) |-> [x |-> StaleCount, y |-> StaleCount]],
     sum |-> [t \in 0 .. (n - 1) |-> StaleCount],
     offset |-> 1, whichBuffer |-> 0]

PrefixSumCalls ==
    UNION {{PrefixSumCall(w * WARP_SIZE, value, variant) :
                value \in [0 .. (w * WARP_SIZE - 1) -> BOOLEAN]} :
           <<w, variant>> \in (1 .. MaxWarpsPerBlock) \X {"ballot", "ladder"}}

PrefixSumInit ==
    /\ KernelInit(Input(0, 1, 1, FALSE, Spread(0), {}, NoTypes(0), NoFilters(MaxGroup),
                        MaxGroup, 1, 1, 0))
    /\ numNeighborPairs = 0
    /\ gayBerne = [pc |-> "unused"]
    /\ scan \in PrefixSumCalls

\* __CUDA_ARCH__ >= 300: temp[threadIdx.x].x = the count within the warp;
\* __syncthreads.
PrefixSumBallotCount ==
    /\ scan.pc = "prefixSum"
    /\ scan.variant = "ballot"
    /\ scan' = [scan EXCEPT
                   !.temp = [t \in DOMAIN scan.temp |->
                                [scan.temp[t] EXCEPT !.x = WarpCount(scan.value, t)]],
                   !.pc = "multiWarp"]
    /\ UNCHANGED <<kernelVars, gayBerne>>

\* The threads of the first warp scan the warps' totals; a lane beyond the
\* block's warps reads temp beyond the block; __syncthreads.
PrefixSumBallotWarps ==
    /\ scan.pc = "multiWarp"
    /\ \E beyond \in StaleCounts :
           LET numWarps == scan.blockDim \div WARP_SIZE
               loaded == [l \in 0 .. (WARP_SIZE - 1) |->
                             IF (l + 1) * WARP_SIZE - 1 \in DOMAIN scan.temp
                             THEN scan.temp[(l + 1) * WARP_SIZE - 1].x
                             ELSE beyond]
               multiWarpSum == ShuffleScan(loaded, 1, numWarps)
           IN  scan' = [scan EXCEPT
                           !.temp = [t \in DOMAIN scan.temp |->
                                        IF t < WARP_SIZE
                                        THEN [scan.temp[t] EXCEPT !.y = multiWarpSum[t]]
                                        ELSE scan.temp[t]],
                           !.pc = "ballotSum"]
    /\ UNCHANGED <<kernelVars, gayBerne>>

\* sum[threadIdx.x] = temp[threadIdx.x].x + the total of the warps before;
\* __syncthreads.
PrefixSumBallotSum ==
    /\ scan.pc = "ballotSum"
    /\ scan' = [scan EXCEPT
                   !.sum = [t \in DOMAIN scan.sum |->
                               scan.temp[t].x +
                                   (IF t < WARP_SIZE THEN 0
                                    ELSE scan.temp[t \div WARP_SIZE - 1].y)],
                   !.pc = "returned"]
    /\ UNCHANGED <<kernelVars, gayBerne>>

\* Otherwise: temp[threadIdx.x].x = value; __syncthreads.
PrefixSumLadderLoad ==
    /\ scan.pc = "prefixSum"
    /\ scan.variant = "ladder"
    /\ scan' = [scan EXCEPT
                   !.temp = [t \in DOMAIN scan.temp |->
                                [scan.temp[t] EXCEPT !.x = IF scan.value[t] THEN 1 ELSE 0]],
                   !.offset = 1, !.whichBuffer = 0,
                   !.pc = "ladder"]
    /\ UNCHANGED <<kernelVars, gayBerne>>

\* One step of the ladder, from one buffer into the other; __syncthreads.
PrefixSumLadderStep ==
    /\ scan.pc = "ladder"
    /\ scan.offset < scan.blockDim
    /\ LET offset == scan.offset
       IN  scan' = [scan EXCEPT
                       !.temp = [t \in DOMAIN scan.temp |->
                                    IF scan.whichBuffer = 0
                                    THEN [scan.temp[t] EXCEPT !.y =
                                             IF t < offset THEN scan.temp[t].x
                                             ELSE scan.temp[t].x + scan.temp[t - offset].x]
                                    ELSE [scan.temp[t] EXCEPT !.x =
                                             IF t < offset THEN scan.temp[t].y
                                             ELSE scan.temp[t].y + scan.temp[t - offset].y]],
                       !.whichBuffer = 1 - scan.whichBuffer,
                       !.offset = 2 * offset]
    /\ UNCHANGED <<kernelVars, gayBerne>>

\* sum[threadIdx.x] = the buffer written last; __syncthreads.
PrefixSumLadderSum ==
    /\ scan.pc = "ladder"
    /\ scan.offset >= scan.blockDim
    /\ scan' = [scan EXCEPT
                   !.sum = [t \in DOMAIN scan.sum |->
                               IF scan.whichBuffer = 0 THEN scan.temp[t].x
                               ELSE scan.temp[t].y],
                   !.pc = "returned"]
    /\ UNCHANGED <<kernelVars, gayBerne>>

PrefixSumNext ==
    \/ PrefixSumBallotCount
    \/ PrefixSumBallotWarps
    \/ PrefixSumBallotSum
    \/ PrefixSumLadderLoad
    \/ PrefixSumLadderStep
    \/ PrefixSumLadderSum

PrefixSumSpec == PrefixSumInit /\ [][PrefixSumNext]_vars

\* ------------------------------------------------------------------ properties
Atoms == 0 .. (NUM_ATOMS - 1)

Range(f) == {f[x] : x \in DOMAIN f}

SquaredDistance(i, j) ==
    (posq[i][1] - posq[j][1]) * (posq[i][1] - posq[j][1])
        + (posq[i][2] - posq[j][2]) * (posq[i][2] - posq[j][2])
        + (posq[i][3] - posq[j][3]) * (posq[i][3] - posq[j][3])

Close(i, j) == SquaredDistance(i, j) < CUTOFF_SQUARED

Excluded(i, j) == {i, j} \in cfg.exclusionSet

\* The pairs a search over all pairs finds.
BruteForcePairs ==
    {pr \in Atoms \X Atoms : pr[1] < pr[2] /\ Close(pr[1], pr[2])
                                 /\ ~Excluded(pr[1], pr[2])}

AllClose == \A i, j \in Atoms : i < j => Close(i, j)

AllFar == \A i, j \in Atoms : i < j => ~Close(i, j)

\* The ascending tuples of particlesPerSet particles: one per set of particles.
AscendingTuples ==
    {g \in [1 .. particlesPerSet -> Atoms] :
        \A i \in 1 .. (particlesPerSet - 1) : g[i] < g[i + 1]}

EvaluatedGroups == {e.p : e \in BagToSet(evaluated)}

GroupWithinCutoff(g) == \A i, j \in 1 .. Len(g) : i < j => Close(g[i], g[j])

ContainsExcludedPair(g) == \E i, j \in 1 .. Len(g) : i < j /\ Excluded(g[i], g[j])

TypesOf(g) == [i \in 1 .. Len(g) |-> cfg.particleTypes[g[i]]]

RoleFiltersSatisfied(atoms) ==
    \A i \in 1 .. Len(atoms) :
        cfg.typeFilters[i] = {} \/ cfg.particleTypes[atoms[i]] \in cfg.typeFilters[i]

\* Some assignment of the members of g to the roles passes every filter.
FiltersAdmit(g) ==
    \E atoms \in [1 .. Len(g) -> Range(g)] :
        Range(atoms) = Range(g) /\ RoleFiltersSatisfied(atoms)

ForcesAreZero == \A k \in DOMAIN forceBuffers : forceBuffers[k] = <<0, 0, 0, 0>>

EnergyIsZero == \A k \in DOMAIN energyBuffer : energyBuffer[k] = 0

FindNeighborsDone == stage = "findNeighbors" /\ AllDone

\* C1: with sufficient capacity, after findBlockBounds and findNeighbors the
\* slots neighborPairs[0 .. numNeighborPairs) hold every pair i < j that is
\* within the cutoff and not excluded, each exactly once, and nothing else,
\* whatever the tile width.
C1_NeighborPairsAreBruteForce ==
    (FindNeighborsDone /\ Cardinality(BruteForcePairs) <= maxNeighborPairs) =>
        /\ numNeighborPairs = Cardinality(BruteForcePairs)
        /\ {neighborPairs[k] : k \in 0 .. (numNeighborPairs - 1)} = BruteForcePairs

C1_Witness ==
    /\ FindNeighborsDone
    /\ TILE_SIZE >= 2 /\ NUM_BLOCKS >= 2
    /\ numNeighborPairs >= 2
    /\ numNeighborPairs <= maxNeighborPairs
    /\ \E i, j \in Atoms : i < j /\ ~Close(i, j)
    /\ \E i, j \in Atoms : i < j /\ Close(i, j) /\ Excluded(i, j)

\* C2: every group the interaction is computed for is a strictly ascending
\* tuple of particlesPerSet particles, no group is computed twice and no two
\* computed groups hold the same particles, for every grid and block size.
C2_GroupsAscendingAndDistinct ==
    \A e \in BagToSet(evaluated) :
        /\ DOMAIN e.p = 1 .. particlesPerSet
        /\ \A i \in 1 .. particlesPerSet : e.p[i] \in Atoms
        /\ \A i \in 1 .. (particlesPerSet - 1) : e.p[i] < e.p[i + 1]
        /\ CopiesIn(e, evaluated) = 1
        /\ \A f \in BagToSet(evaluated) : Range(f.p) = Range(e.p) => f = e

C2_Witness ==
    /\ stage = "done"
    /\ gridDim >= 2 /\ blockDim >= 2
    /\ particlesPerSet = 3
    /\ BagCardinality(evaluated) >= 4

\* C3: when every pair is within the cutoff (or there is no cutoff) and there
\* are no exclusions and no filters, every set of particlesPerSet particles is
\* evaluated exactly once.
C3_EverySubsetOnce ==
    (stage = "done" /\ (USE_CUTOFF => AllClose) /\ ~USE_EXCLUSIONS /\ ~USE_FILTERS) =>
        /\ EvaluatedGroups = AscendingTuples
        /\ BagCardinality(evaluated) =
               Cardinality({S \in SUBSET Atoms : Cardinality(S) = particlesPerSet})

C3_Witness ==
    /\ stage = "done"
    /\ USE_CUTOFF /\ AllClose /\ ~USE_EXCLUSIONS /\ ~USE_FILTERS
    /\ NUM_ATOMS = 4 /\ particlesPerSet = 3
    /\ \A i, j \in Atoms : i < j => posq[i] # posq[j] \/ j = i + 3
    /\ BagCardinality(evaluated) = 4

\* C4: no group that holds an excluded pair, in any two roles, is evaluated,
\* and the groups evaluated are exactly those evaluated without the
\* exclusions less the groups that hold an excluded pair.
C4_ExclusionRemovesExactlyItsGroups ==
    /\ \A e \in BagToSet(evaluated) : ~ContainsExcludedPair(e.p)
    /\ (stage = "done" /\ USE_EXCLUSIONS) =>
           EvaluatedGroups =
               {g \in AscendingTuples :
                   /\ USE_CUTOFF => GroupWithinCutoff(g)
                   /\ USE_FILTERS => FiltersAdmit(g)} \
               {g \in AscendingTuples : ContainsExcludedPair(g)}

C4_Witness ==
    /\ stage = "done"
    /\ USE_CUTOFF /\ AllClose
    /\ NUM_ATOMS = 4 /\ particlesPerSet = 3
    /\ cfg.exclusionSet = {{0, 1}}
    /\ BagCardinality(evaluated) = 2
    /\ EvaluatedGroups = {<<0, 2, 3>>, <<1, 2, 3>>}

\* C5: with a cutoff, a group is evaluated only if every pair of its members
\* is closer than the cutoff; when no pair of particles is, nothing is
\* evaluated and forces and energy stay zero.
C5_EveryPairWithinCutoff ==
    USE_CUTOFF =>
        /\ \A e \in BagToSet(evaluated) : GroupWithinCutoff(e.p)
        /\ (stage = "done" /\ AllFar) =>
               evaluated = EmptyBag /\ ForcesAreZero /\ EnergyIsZero

C5_Witness ==
    /\ stage = "done"
    /\ USE_CUTOFF /\ particlesPerSet = 3
    /\ evaluated # EmptyBag
    /\ \E g \in AscendingTuples :
           /\ Close(g[1], g[2]) /\ Close(g[1], g[3]) /\ ~Close(g[2], g[3])
           /\ g \notin EvaluatedGroups

\* C6: with type filters, a group is evaluated only if the order looked up
\* for its types is not -1, the roles it is evaluated with pass every role's
\* filter (an empty filter passes everything), and every set of particles
\* that some assignment of roles admits is evaluated with exactly one.
C6_FiltersAndOnePermutation ==
    USE_FILTERS =>
        /\ \A e \in BagToSet(evaluated) :
               /\ cfg.orderIndex[TypeIndexOf(TypesOf(e.p))] # -1
               /\ Range(e.atoms) = Range(e.p)
               /\ RoleFiltersSatisfied(e.atoms)
               /\ CopiesIn(e, evaluated) = 1
               /\ \A f \in BagToSet(evaluated) : Range(f.p) = Range(e.p) => f = e
        /\ stage = "done" =>
               EvaluatedGroups =
                   {g \in AscendingTuples :
                       /\ FiltersAdmit(g)
                       /\ USE_CUTOFF => GroupWithinCutoff(g)
                       /\ ~ContainsExcludedPair(g)}

C6_Witness ==
    /\ stage = "done"
    /\ USE_FILTERS /\ particlesPerSet = 3
    /\ cfg.typeFilters = <<{0}, {1}, {1}>>
    /\ \E e \in BagToSet(evaluated) : e.atoms # e.p
    /\ \E g \in AscendingTuples : ~FiltersAdmit(g)

StartIndicesDone == stage = "computeNeighborStartIndices" /\ AllDone

\* C7: after computeNeighborStartIndices, neighborStartIndex has NUM_ATOMS + 1
\* entries, starts at 0, never decreases, and ends at the number of pairs
\* findNeighbors accepted, for every NUM_ATOMS and block size.
C7_StartIndexIsPrefixSum ==
    StartIndicesDone =>
        /\ DOMAIN neighborStartIndex = 0 .. NUM_ATOMS
        /\ neighborStartIndex[0] = 0
        /\ \A k \in 0 .. (NUM_ATOMS - 1) :
               neighborStartIndex[k] <= neighborStartIndex[k + 1]
        /\ neighborStartIndex[NUM_ATOMS] = numNeighborPairs

CopyPairsDone == stage = "copyPairsToNeighborList" /\ AllDone

\* C8: while copyPairsToNeighborList runs with a pair count above
\* maxNeighborPairs, no step writes neighbors or a cursor numNeighborsForAtom[k],
\* and every worker returns.
C8_OverflowLeavesListUntouched ==
    [][(stage = "copyPairsToNeighborList" /\ numNeighborPairs > maxNeighborPairs) =>
           /\ neighbors' = neighbors
           /\ numNeighborsForAtom' = numNeighborsForAtom
           /\ \A w \in Workers : wk'[w].pc = "done" \/ wk'[w] = wk[w]]_vars

C8_Witness ==
    /\ CopyPairsDone
    /\ numNeighborPairs > maxNeighborPairs
    /\ maxNeighborPairs >= 1
    /\ \E k \in 0 .. (maxNeighborPairs - 1) : neighborPairs[k] # <<-1, -1>>
    /\ \A k \in DOMAIN neighbors : neighbors[k] = -1

\* C9: when more pairs are accepted than the buffers hold, the attempt ends
\* with the overflow signal: the interaction is never launched, no group is
\* evaluated and the force and energy buffers keep their values.
C9_NoEvaluationOnOverflow ==
    (USE_CUTOFF /\ Cardinality(BruteForcePairs) > maxNeighborPairs) =>
        /\ stage \notin {"computeInteraction", "done"}
        /\ evaluated = EmptyBag /\ ForcesAreZero /\ EnergyIsZero
        /\ (FindNeighborsDone \/ stage \in {"computeNeighborStartIndices",
                                            "copyPairsToNeighborList",
                                            "capacityExceeded"}) =>
               numNeighborPairs > maxNeighborPairs

C9_Witness ==
    /\ stage = "capacityExceeded"
    /\ maxNeighborPairs = 1
    /\ numNeighborPairs = 3
    /\ Cardinality(BruteForcePairs) = 3
    /\ evaluated = EmptyBag /\ ForcesAreZero /\ EnergyIsZero

\* C10: after findBlockBounds and findNeighbors the pair counter holds the
\* number of pairs accepted in this invocation, whatever it held before and
\* whatever the capacity; a pair is missing from neighborPairs only when the
\* counter exceeds maxNeighborPairs, and a capacity equal to the reported
\* count does not overflow.
C10_PairCountIsTotalAccepted ==
    FindNeighborsDone =>
        /\ numNeighborPairs = Cardinality(BruteForcePairs)
        /\ numNeighborPairs <= maxNeighborPairs =>
               BruteForcePairs \subseteq
                   {neighborPairs[k] : k \in 0 .. (numNeighborPairs - 1)}
        /\ attempts >= 2 => numNeighborPairs = maxNeighborPairs

C10_Witness ==
    /\ FindNeighborsDone
    /\ attempts = 2
    /\ numNeighborPairs >= 2
    /\ numNeighborPairs = maxNeighborPairs
    /\ BruteForcePairs = {neighborPairs[k] : k \in 0 .. (numNeighborPairs - 1)}

\* The groups the input admits: within the cutoff, no excluded pair, admitted
\* by the filters.
QualifyingGroups ==
    {g \in AscendingTuples :
        /\ USE_CUTOFF => GroupWithinCutoff(g)
        /\ ~ContainsExcludedPair(g)
        /\ USE_FILTERS => FiltersAdmit(g)}

RECURSIVE SumOver(_, _)
SumOver(S, f) ==
    IF S = {} THEN 0
    ELSE LET x == CHOOSE y \in S : TRUE
         IN  f[x] + SumOver(S \ {x}, f)

\* Component k of the force the admitted groups put on particle a.
TotalForce(a, k) ==
    SumOver({g \in QualifyingGroups : a \in Range(g)},
            [g \in QualifyingGroups |->
                SumOver(1 .. Len(g), [j \in 1 .. Len(g) |-> posq[g[j]][k] - posq[a][k]])])

\* v * 2^32 as a 64-bit two's complement word, for |v| < 2^16.
FixedPointWord(v) == IF v >= 0 THEN <<0, 0, v, 0>> ELSE <<0, 0, Limb + v, Limb - 1>>

\* C11: with sufficient capacity the final contents of the fixed-point force
\* buffer are fixed by the input: every slot ends as the 64-bit wrap-around
\* encoding of the sum of its contributions, in every interleaving of the
\* workers' atomic adds.
C11_ForcesIndependentOfOrder ==
    stage = "done" =>
        \A a \in 0 .. (PADDED_NUM_ATOMS - 1) : \A k \in 1 .. 3 :
            forceBuffers[a + (k - 1) * PADDED_NUM_ATOMS] =
                IF a < NUM_ATOMS THEN FixedPointWord(TotalForce(a, k)) ELSE ZeroU64

C11_Witness ==
    /\ stage = "done"
    /\ gridDim >= 2 /\ blockDim >= 2
    /\ BagCardinality(evaluated) >= 4
    /\ \E a \in Atoms : \E k \in 1 .. 3 : TotalForce(a, k) < 0
    /\ \E a \in Atoms : \E k \in 1 .. 3 : TotalForce(a, k) > 0
    /\ \E a \in Atoms : \E k \in 1 .. 3 :
           forceBuffers[a + (k - 1) * PADDED_NUM_ATOMS][4] = Limb - 1

EveryWorkerReturned == \A w \in DOMAIN wk : wk[w].pc = "done"

\* The order in which one invocation goes through its stages.
StageOrder ==
    {<<"idle", "findBlockBounds">>,
     <<"findBlockBounds", "findNeighbors">>,
     <<"findNeighbors", "computeNeighborStartIndices">>,
     <<"computeNeighborStartIndices", "copyPairsToNeighborList">>,
     <<"copyPairsToNeighborList", "computeInteraction">>,
     <<"copyPairsToNeighborList", "capacityExceeded">>,
     <<"capacityExceeded", "idle">>,
     <<"idle", "computeInteraction">>,
     <<"computeInteraction", "done">>}

\* C12: the stages of an invocation are strictly ordered. A stage begins only
\* when every worker of the stage before it has returned; while
\* computeNeighborStartIndices runs no count-producing write of findNeighbors
\* is left (the pairs and the pair count are fixed), while
\* copyPairsToNeighborList runs the offset table is fixed, and while the
\* evaluation runs the neighbor list, the table and the cursors are fixed.
C12_StagesStrictlyOrdered ==
    [][/\ stage' # stage => EveryWorkerReturned /\ <<stage, stage'>> \in StageOrder
       /\ stage = "computeNeighborStartIndices" =>
              neighborPairs' = neighborPairs /\ numNeighborPairs' = numNeighborPairs
       /\ stage = "copyPairsToNeighborList" =>
              /\ neighborStartIndex' = neighborStartIndex
              /\ neighborPairs' = neighborPairs
       /\ stage = "computeInteraction" =>
              /\ neighbors' = neighbors
              /\ neighborStartIndex' = neighborStartIndex
              /\ numNeighborsForAtom' = numNeighborsForAtom]_vars

C12_Witness ==
    /\ stage = "computeInteraction"
    /\ USE_CUTOFF
    /\ gridDim >= 2 /\ blockDim >= 2
    /\ numNeighborPairs >= 2
    /\ \E w \in Workers : wk[w].pc # "done"
    /\ \E k \in DOMAIN neighbors : neighbors[k] # -1

\* Some edge of the periodic box is below 1.999999 times the cutoff: in
\* millionths, below twice the cutoff less a millionth of it.
BoxBelowTwiceCutoff ==
    \E d \in 1 .. 3 :
        gayBerne.boxVectors[d] <
            2 * gayBerne.cutoffDistance * MicroPerUnit - gayBerne.cutoffDistance

\* C13: under CutoffPeriodic with a box edge below 1.999999 times the cutoff,
\* calculateForce throws before anything is computed: no energy is returned
\* and the forces are as the caller passed them. In every other case nothing
\* is thrown: NoCutoff and CutoffNonPeriodic never look at the box.
C13_SmallPeriodicBoxThrowsFirst ==
    gayBerne.pc \notin {"unused", "calculateForce"} =>
        /\ gayBerne.pc = "thrown" <=>
               (gayBerne.nonbondedMethod = "CutoffPeriodic" /\ BoxBelowTwiceCutoff)
        /\ gayBerne.pc = "thrown" =>
               /\ ~gayBerne.framesComputed
               /\ gayBerne.energy = 0
               /\ gayBerne.returned = "none"
        /\ gayBerne.forces = GayBerneForcesBefore(gayBerne.numParticles)

C13_Witness ==
    /\ gayBerne.pc = "thrown"
    /\ gayBerne.nonbondedMethod = "CutoffPeriodic"
    /\ gayBerne.cutoffDistance = 2
    /\ gayBerne.boxVectors = <<4 * MicroPerUnit, 4 * MicroPerUnit, 3999997>>
    /\ gayBerne.numParticles >= 2

\* The compacted list holds, in the range of every particle, exactly the
\* particle's accepted neighbors.
NeighborListIsFull ==
    \A k \in Atoms :
        /\ neighborStartIndex[k] >= 0
        /\ neighborStartIndex[k + 1] <= maxNeighborPairs
        /\ {neighbors[s] : s \in neighborStartIndex[k] .. (neighborStartIndex[k + 1] - 1)} =
               {j \in Atoms : <<k, j>> \in BruteForcePairs}

\* C14: an attempt that follows a CapacityExceeded attempt, run with the
\* reported pair count as capacity, does not overflow, and the evaluation it
\* reaches runs with the full neighbor list.
C14_RetryCompletesWithFullList ==
    (attempts >= 2 /\ (CopyPairsDone \/ stage \in {"computeInteraction", "done"})) =>
        /\ numNeighborPairs <= maxNeighborPairs
        /\ NeighborListIsFull

\* The number of neighbors findNeighbors records for particle i.
NeighborCount(i) == Cardinality({j \in Atoms : <<i, j>> \in BruteForcePairs})

\* C15: for every NUM_ATOMS, also above the block size, and every interleaving
\* of the threads that __syncthreads allows, computeNeighborStartIndices leaves
\* neighborStartIndex[k + 1] equal to the sum of the counts of particles 0 .. k.
C15_StartIndexForEveryInterleaving ==
    StartIndicesDone =>
        \A k \in Atoms :
            neighborStartIndex[k + 1] =
                SumOver({i \in Atoms : i <= k}, [i \in Atoms |-> NeighborCount(i)])

\* C16: in findNeighbors every step writes only slots of the range it has just
\* reserved, [count before, count after), which lies in [0, maxNeighborPairs)
\* and whose slots were not written before; the counter never decreases, so
\* the ranges are pairwise disjoint; and once the counter is above
\* maxNeighborPairs no later reservation writes anything.
C16_ReservedRangesDisjointAndInBounds ==
    [][stage = "findNeighbors" =>
           /\ numNeighborPairs' >= numNeighborPairs
           /\ DOMAIN neighborPairs' = 0 .. (maxNeighborPairs - 1)
           /\ outOfBounds' = outOfBounds
           /\ \A k \in DOMAIN neighborPairs :
                  neighborPairs'[k] # neighborPairs[k] =>
                      /\ k >= numNeighborPairs /\ k < numNeighborPairs'
                      /\ numNeighborPairs' <= maxNeighborPairs
                      /\ neighborPairs[k] = <<-1, -1>>
           /\ numNeighborPairs > maxNeighborPairs => neighborPairs' = neighborPairs]_vars

C16_Witness ==
    /\ FindNeighborsDone
    /\ maxNeighborPairs = 2
    /\ numNeighborPairs > maxNeighborPairs
    /\ neighborPairs[0] # <<-1, -1>>
    /\ neighborPairs[1] # <<-1, -1>>
    /\ neighborPairs[0] # neighborPairs[1]

\* The slots of particle k in the compacted list, as the offset table gives them.
NeighborRange(k) == neighborStartIndex[k] .. (neighborStartIndex[k + 1] - 1)

\* C17: with the pair count within capacity, after copyPairsToNeighborList the
\* range of every particle k holds exactly the j of the candidate pairs (k, j),
\* each once, and no write fell outside the list.
C17_RangesHoldCandidatePairs ==
    (CopyPairsDone /\ numNeighborPairs <= maxNeighborPairs) =>
        /\ \A k \in Atoms :
               /\ NeighborRange(k) \subseteq DOMAIN neighbors
               /\ \A j \in Atoms :
                      Cardinality({s \in NeighborRange(k) : neighbors[s] = j}) =
                          Cardinality({i \in 0 .. (numNeighborPairs - 1) :
                                          neighborPairs[i] = <<k, j>>})
               /\ \A s \in NeighborRange(k) : neighbors[s] \in Atoms
        /\ \A s \in DOMAIN neighbors : <<"neighbors", s>> \notin outOfBounds

\* C18: after computeNeighborStartIndices every counter numNeighborsForAtom[k],
\* k < NUM_ATOMS, is 0; after a copyPairsToNeighborList within capacity every
\* counter is neighborStartIndex[k + 1] - neighborStartIndex[k], the count
\* findNeighbors recorded for k.
C18_CountersReusedAsCursors ==
    /\ StartIndicesDone => \A k \in Atoms : numNeighborsForAtom[k] = 0
    /\ (CopyPairsDone /\ numNeighborPairs <= maxNeighborPairs) =>
           \A k \in Atoms :
               /\ numNeighborsForAtom[k] =
                      neighborStartIndex[k + 1] - neighborStartIndex[k]
               /\ numNeighborsForAtom[k] = NeighborCount(k)

\* The first half of C18 alone: the counters are cleared.
CountersClearedByStartIndices ==
    StartIndicesDone => \A k \in Atoms : numNeighborsForAtom[k] = 0

\* The cursors after the copy, compared with the counts only.
CursorsEndAtCounts ==
    (CopyPairsDone /\ numNeighborPairs <= maxNeighborPairs) =>
        \A k \in Atoms : numNeighborsForAtom[k] = NeighborCount(k)

\* The candidate pairs findNeighbors has stored.
StoredPairs == {neighborPairs[s] : s \in DOMAIN neighborPairs} \ {<<-1, -1>>}

\* C19: every pair findNeighbors stores has 0 <= i < j < NUM_ATOMS, and every
\* entry of particle k's range of the compacted list is above k and below
\* NUM_ATOMS.
C19_NeighborsAreForwardOnly ==
    /\ \A pr \in StoredPairs : 0 <= pr[1] /\ pr[1] < pr[2] /\ pr[2] < NUM_ATOMS
    /\ (CopyPairsDone /\ numNeighborPairs <= maxNeighborPairs) =>
           \A k \in Atoms : \A s \in NeighborRange(k) :
               s \in DOMAIN neighbors /\ neighbors[s] > k /\ neighbors[s] < NUM_ATOMS

\* The first half of C19 alone.
StoredPairsAreForward ==
    \A pr \in StoredPairs : 0 <= pr[1] /\ pr[1] < pr[2] /\ pr[2] < NUM_ATOMS

\* The entries stored for atom1: exclusions[first .. last).
StoredExclusions(atom1) ==
    {exclusions[i] : i \in exclusionStartIndex[atom1] ..
                             (exclusionStartIndex[atom1 + 1] - 1)}

\* The list of atom1 is stored in ascending order.
StoredAscending(atom1) ==
    \A i, j \in exclusionStartIndex[atom1] .. (exclusionStartIndex[atom1 + 1] - 1) :
        i < j => exclusions[i] < exclusions[j]

\* C20: for atom1 < atom2 and a list of atom1 stored in ascending order,
\* isInteractionExcluded(atom1, atom2) is true exactly when atom2 is among the
\* entries stored for atom1: the early exit at an entry <= atom1 misses no
\* stored atom2 > atom1, and an empty list gives false.
C20_ExcludedIffStored ==
    \A atom1, atom2 \in Atoms :
        (atom1 < atom2 /\ StoredAscending(atom1)) =>
            /\ isInteractionExcluded(atom1, atom2) <=> atom2 \in StoredExclusions(atom1)
            /\ StoredExclusions(atom1) = {} => ~isInteractionExcluded(atom1, atom2)

C20_Witness ==
    /\ FindNeighborsDone
    /\ USE_EXCLUSIONS
    /\ NUM_ATOMS = 4
    /\ StoredExclusions(1) = {0, 3}
    /\ StoredExclusions(2) = {}
    /\ isInteractionExcluded(1, 3)
    /\ ~isInteractionExcluded(1, 2)
    /\ <<1, 2>> \in StoredPairs
    /\ <<1, 3>> \notin StoredPairs
    /\ <<0, 3>> \in StoredPairs

\* Every excluded pair is in the ascending lists of both of its particles.
StoredBothWays ==
    \A a, b \in Atoms :
        /\ StoredAscending(a)
        /\ b \in StoredExclusions(a) <=> a \in StoredExclusions(b)

\* C21: with every excluded pair stored in the sorted lists of both of its
\* particles, isInteractionExcluded(a, b) and isInteractionExcluded(b, a) give
\* the same value for all particles a # b.
C21_ExclusionLookupIsUnordered ==
    StoredBothWays =>
        \A a, b \in Atoms :
            a # b => (isInteractionExcluded(a, b) <=> isInteractionExcluded(b, a))

\* The particles in the range of p1 in the compacted list.
NeighborPool(p1) == {neighbors[s] : s \in NeighborRange(p1) \cap DOMAIN neighbors}

\* The groups an enumeration from the compacted ranges evaluates: the anchor
\* and particlesPerSet - 1 particles of its range, with the same checks.
GroupsFromNeighborRanges ==
    {g \in AscendingTuples :
        /\ \A i \in 2 .. Len(g) : g[i] \in NeighborPool(g[1])
        /\ GroupWithinCutoff(g)
        /\ ~ContainsExcludedPair(g)
        /\ USE_FILTERS => FiltersAdmit(g)}

\* C22: enumerating the groups of every anchor p1 from its range of the
\* compacted list gives exactly the groups computeInteraction evaluates from
\* all particles above p1: the list causes no false negatives.
C22_NeighborRangesLoseNoGroup ==
    (stage = "done" /\ USE_CUTOFF) => GroupsFromNeighborRanges = EvaluatedGroups

\* The pool sizes computeInteraction meets: one for every anchor p1.
PoolSizes == {NUM_ATOMS - p1 - 1 : p1 \in Atoms}

\* The strictly ascending k-tuples of the pool positions 0 .. M - 1.
AscendingPositions(M, k) ==
    {t \in [1 .. k -> 0 .. (M - 1)] : \A i \in 1 .. (k - 1) : t[i] < t[i + 1]}

\* C23: for a pool of M neighbors the map from a combination index in
\* [0, NUM_CANDIDATE_COMBINATIONS) to particlesPerSet - 1 pool positions is a
\* bijection onto the strictly ascending tuples of positions: every index
\* gives such a tuple and every such tuple comes from exactly one index.
C23_UnrankingIsBijection ==
    \A M \in PoolSizes :
        LET k == particlesPerSet - 1
            indices == 0 .. (NumCandidateCombinations(M) - 1)
        IN  /\ \A index \in indices : Unrank(index, 0, M, k) \in AscendingPositions(M, k)
            /\ \A t \in AscendingPositions(M, k) :
                   Cardinality({index \in indices : Unrank(index, 0, M, k) = t}) = 1

C23_Witness ==
    /\ stage = "done"
    /\ NUM_ATOMS = 4 /\ particlesPerSet = 3
    /\ NumCandidateCombinations(3) = 3
    /\ Unrank(2, 0, 3, 2) = <<1, 2>>
    /\ FindAtomsForCombinationIndex(0, 2, 3) = <<0, 2, 3>>
    /\ <<0, 2, 3>> \in EvaluatedGroups
    /\ <<0, 1, 2>> \in EvaluatedGroups
    /\ <<0, 1, 3>> \in EvaluatedGroups

\* The work items of computeInteraction: every anchor with every index below
\* its number of candidate combinations.
CombinationItems ==
    {<<"computeInteraction", p1, index>> :
        <<p1, index>> \in {pr \in Atoms \X (0 .. (Binomial(MaxAtoms, MaxGroup - 1))) :
                              pr[2] < NumCandidateCombinations(NumNeighbors(pr[1]))}}

ComputeInteractionDone == stage = "computeInteraction" /\ AllDone

\* C24: for every grid and block size the strided loops cover the work exactly
\* once: no item is handled twice, at the end of computeInteraction every
\* (p1, index) has been handled once, and at the end of findNeighbors every
\* atom1 < NUM_ATOMS has been handled, and its count written, once.
C24_StridedLoopsCoverWorkOnce ==
    /\ \A item \in BagToSet(workDone) : CopiesIn(item, workDone) = 1
    /\ \A item \in BagToSet(workDone) :
           /\ item[1] = "computeInteraction" => item \in CombinationItems
           /\ item[1] = "findNeighbors" => item[2] \in Atoms
    /\ ComputeInteractionDone =>
           \A item \in CombinationItems : CopiesIn(item, workDone) = 1
    /\ FindNeighborsDone =>
           \A atom1 \in Atoms : CopiesIn(<<"findNeighbors", atom1>>, workDone) = 1

C24_Witness ==
    /\ ComputeInteractionDone
    /\ USE_CUTOFF
    /\ gridDim * blockDim = 2
    /\ NUM_ATOMS = 4 /\ particlesPerSet = 2
    /\ Cardinality(CombinationItems) = 6
    /\ \A atom1 \in Atoms : CopiesIn(<<"findNeighbors", atom1>>, workDone) = 1
    /\ \A item \in CombinationItems : CopiesIn(item, workDone) = 1

FindBlockBoundsDone == stage = "findBlockBounds" /\ AllDone

\* The particles of tile b that exist.
TileAtoms(b) == {i \in Atoms : i \div TILE_SIZE = b}

\* C25: after findBlockBounds every tile b < NUM_BLOCKS has a center and a
\* half-extent with |pos_i - center_b| <= halfExtent_b on every axis for every
\* particle i < NUM_ATOMS of the tile (both sides doubled here, as the model
\* stores them); every tile is written exactly once, no other entry is
\* written, and with zero particles nothing is written.
C25_TileBoxesCoverTheirParticles ==
    /\ \A item \in BagToSet(workDone) :
           item[1] = "findBlockBounds" =>
               /\ item[2] \in 0 .. (NUM_BLOCKS - 1)
               /\ TileAtoms(item[2]) # {}
               /\ CopiesIn(item, workDone) = 1
    /\ FindBlockBoundsDone =>
           \A b \in 0 .. (NUM_BLOCKS - 1) :
               /\ CopiesIn(<<"findBlockBounds", b>>, workDone) = 1
               /\ \A i \in TileAtoms(b) : \A k \in 1 .. 3 :
                      Abs(2 * posq[i][k] - blockCenter[b][k]) <= blockBoundingBox[b][k]

C25_Witness ==
    /\ FindBlockBoundsDone
    /\ NUM_ATOMS = 3 /\ TILE_SIZE = 2
    /\ gridDim * blockDim = 1
    /\ posq[0] # posq[1]
    /\ blockBoundingBox[0] # <<0, 0, 0>>
    /\ posq[2] # posq[3]
    /\ blockBoundingBox[1] = <<0, 0, 0>>
    /\ blockCenter[1] = [k \in 1 .. 3 |-> 2 * posq[2][k]]

\* The tiles findNeighbors tests for atom1: its own and the later ones.
TilesFrom(atom1) == (atom1 \div TILE_SIZE) .. (NUM_BLOCKS - 1)

\* C26: while findNeighbors runs, a tile block2 >= tile(atom1) that the
\* box-vs-box test rejects holds no particle closer to atom1 than the cutoff:
\* the pruning drops no pair the per-pair test accepts.
C26_TilePruningIsConservative ==
    stage = "findNeighbors" =>
        \A atom1 \in Atoms : \A block2 \in TilesFrom(atom1) :
            ~BlocksWithinCutoff(atom1 \div TILE_SIZE, block2) =>
                \A atom2 \in TileAtoms(block2) : ~Close(atom1, atom2)

C26_Witness ==
    /\ FindNeighborsDone
    /\ NUM_ATOMS = 4 /\ TILE_SIZE = 2
    /\ CUTOFF_SQUARED = 3
    /\ posq[0] # posq[2]
    /\ ~BlocksWithinCutoff(0, 1)
    /\ BlocksWithinCutoff(0, 0)
    /\ Close(0, 1) /\ Close(2, 3)
    /\ numNeighborPairs = 2

\* The number of threads u <= t whose value is true.
TrueUpTo(t) == Cardinality({u \in 0 .. t : scan.value[u]})

\* C27: for every block size that is a multiple of the warp size and every
\* assignment of values, the variant compiled, ballot and shuffle or the
\* double-buffered ladder, returns sum[t] = the number of threads u <= t whose
\* value is true; so the two variants return the same.
C27_PrefixSumVariantsAgree ==
    scan.pc = "returned" =>
        \A t \in 0 .. (scan.blockDim - 1) : scan.sum[t] = TrueUpTo(t)

C27_Witness ==
    /\ scan.pc = "returned"
    /\ scan.variant = "ballot"
    /\ scan.blockDim = 3 * WARP_SIZE
    /\ scan.value[0] /\ ~scan.value[1] /\ scan.value[WARP_SIZE]
    /\ scan.sum[scan.blockDim - 1] = 7
    /\ scan.sum[WARP_SIZE] = TrueUpTo(WARP_SIZE)

\* Every thread of the block has returned from computeNeighborStartIndices.
StartIndicesReturned == \A t \in Threads : wk[t].pc = "done"

\* The threads waiting at a barrier wait at the same one, in the same window
\* and scan step, and no thread has left the loop while another waits.
BarriersAligned ==
    \A t, u \in Threads :
        wk[t].pc = "barrier" =>
            /\ wk[u].pc \notin {"exit", "done"}
            /\ wk[u].pc = "barrier" =>
                   /\ wk[u].startAtom = wk[t].startAtom
                   /\ wk[u].step = wk[t].step
                   /\ wk[u].resume = wk[t].resume

\* C28: computeNeighborStartIndices terminates without barrier deadlock: for
\* every NUM_ATOMS and block size the threads meet at the same barriers, also
\* the threads whose globalIndex is at or above NUM_ATOMS, and in the end every
\* thread has returned.
C28_StartIndicesTerminates ==
    /\ []BarriersAligned
    /\ <>StartIndicesReturned

C28_Witness ==
    /\ StartIndicesReturned
    /\ NUM_ATOMS = 4 /\ blockDim = 3
    /\ numNeighborPairs = 4
    /\ <<"numNeighborsForAtom", 5>> \in outOfBounds

\* C29: every write of computeNeighborStartIndices stays inside the arrays'
\* logical bounds: numNeighborsForAtom[k] only for k < NUM_ATOMS and
\* neighborStartIndex[k] only for k <= NUM_ATOMS, also when NUM_ATOMS is not a
\* multiple of the block size.
C29_StartIndicesWritesInBounds ==
    /\ DOMAIN numNeighborsForAtom = 0 .. (NUM_ATOMS - 1)
    /\ DOMAIN neighborStartIndex = 0 .. NUM_ATOMS
    /\ \A e \in outOfBounds : e[1] \notin {"numNeighborsForAtom", "neighborStartIndex"}

\* The writes to neighborStartIndex alone stay inside 0 .. NUM_ATOMS.
StartIndexWritesInBounds ==
    /\ DOMAIN neighborStartIndex = 0 .. NUM_ATOMS
    /\ \A e \in outOfBounds : e[1] # "neighborStartIndex"

\* The energies of the groups evaluated so far, summed.
EvaluatedEnergy ==
    SumOver(BagToSet(evaluated),
            [e \in BagToSet(evaluated) |->
                CopiesIn(e, evaluated) * InteractionEnergy(e.atoms)])

\* The energy buffer summed over its slots.
EnergyBufferTotal == SumOver(DOMAIN energyBuffer, energyBuffer)

\* The running totals the workers have not added to their slots yet.
PendingEnergy ==
    SumOver(Workers, [w \in Workers |->
                         IF wk[w].pc \in {"run", "add"} THEN wk[w].energy ELSE 0])

\* The force buffer after storeForce for every member of every group of a bag.
RECURSIVE ForcesOfGroups(_, _)
ForcesOfGroups(buffers, groups) ==
    IF groups = EmptyBag THEN buffers
    ELSE LET e == CHOOSE x \in BagToSet(groups) : TRUE
         IN  ForcesOfGroups(StoreForces(buffers, e.atoms, 1), groups (-) SetToBag({e}))

\* C30: energy is accumulated without a race and without atomics: every worker
\* adds its running total to its own slot of energyBuffer, no slot is written
\* by two workers or changed between a worker's read and its write, the
\* increments of one invocation sum to the energies of the groups evaluated,
\* and a group that fails a check adds nothing to energy or forces.
C30_EnergySlotsArePrivate ==
    /\ \A w \in Workers : EnergySlot(w) \in DOMAIN energyBuffer
    /\ \A w, v \in Workers : w # v => EnergySlot(w) # EnergySlot(v)
    /\ \A s \in DOMAIN energyBuffer : CopiesIn(<<"energyBuffer", s>>, workDone) <= 1
    /\ stage = "computeInteraction" =>
           /\ \A w \in Workers :
                  wk[w].pc = "add" => wk[w].read = energyBuffer[EnergySlot(w)]
           /\ EnergyBufferTotal + PendingEnergy = EvaluatedEnergy
    /\ stage = "done" => EnergyBufferTotal = EvaluatedEnergy
    /\ stage \in {"computeInteraction", "done"} =>
           forceBuffers =
               ForcesOfGroups([k \in DOMAIN forceBuffers |-> ZeroU64], evaluated)

C30_Witness ==
    /\ stage = "done"
    /\ gridDim >= 2 /\ blockDim >= 2
    /\ EnergyBufferTotal >= 2
    /\ Cardinality({s \in DOMAIN energyBuffer : energyBuffer[s] > 0}) >= 2
    /\ Cardinality(CombinationItems) > BagCardinality(evaluated)

\* trunc(force * 2^32) as a signed number, limb by limb.
SignedFixedPoint(f) ==
    LET sign == IF f.whole < 0 \/ f.half < 0 THEN -1 ELSE 1
        fraction == Abs(f.half) \div 2
    IN  <<sign * (fraction % Limb), sign * (fraction \div Limb),
          sign * (Abs(f.whole) % Limb), sign * (Abs(f.whole) \div Limb)>>

\* The calls that contribute to a slot, and the component they contribute.
SlotCalls(slot) ==
    {c \in BagToSet(workDone) : c[1] = "storeForce" /\ slot % PADDED_NUM_ATOMS = c[2]}

\* The signed sum of the contributions to a slot, limb by limb.
SlotSum(slot) ==
    LET k == slot \div PADDED_NUM_ATOMS + 1
        calls == SlotCalls(slot)
    IN  [l \in 1 .. 4 |->
            SumOver(calls, [c \in calls |->
                               CopiesIn(c, workDone) * SignedFixedPoint(c[3][k])[l]])]

\* A signed sum of limbs modulo 2^64.
WrapU64(s) ==
    LET t2 == s[2] + (s[1] \div Limb)
        t3 == s[3] + (t2 \div Limb)
        t4 == s[4] + (t3 \div Limb)
    IN  <<s[1] % Limb, t2 % Limb, t3 % Limb, t4 % Limb>>

\* C31: storeForce adds trunc(force * 2^32) to the three slots of the atom as
\* a 64-bit wrap-around add, negative values in two's complement: after any
\* calls every slot holds the signed sum of its contributions modulo 2^64,
\* storing f and then -f restores the buffer, and a call leaves the slots of
\* other atoms and the padding as they were.
C31_StoreForceAddsFixedPoint ==
    /\ \A slot \in DOMAIN forceBuffers : forceBuffers[slot] = WrapU64(SlotSum(slot))
    /\ \A atom \in Atoms : \A f \in ForceVectors :
           LET stored == storeForce(forceBuffers, atom, f)
           IN  /\ storeForce(stored, atom, [k \in 1 .. 3 |-> NegForce(f[k])]) = forceBuffers
               /\ DOMAIN stored = DOMAIN forceBuffers
               /\ \A slot \in DOMAIN forceBuffers :
                      slot % PADDED_NUM_ATOMS # atom => stored[slot] = forceBuffers[slot]

C31_Witness ==
    /\ BagCardinality(workDone) = MaxStoreCalls
    /\ \E c \in BagToSet(workDone) : c[1] = "storeForce"
    /\ \E slot \in DOMAIN forceBuffers : SlotSum(slot)[4] >= Limb
    /\ \E slot \in DOMAIN forceBuffers : SlotSum(slot)[4] < 0
    /\ \E slot \in DOMAIN forceBuffers : SlotSum(slot)[1] < 0

\* No two exceptions name the same unordered pair.
ExceptionsNameDistinctPairs ==
    \A k, l \in 1 .. Len(gayBerne.exceptions) :
        k # l => {gayBerne.exceptions[k][1], gayBerne.exceptions[k][2]} #
                     {gayBerne.exceptions[l][1], gayBerne.exceptions[l][2]}

\* The calls of computeOneInteraction made so far for the pair {a, b}.
CallsForPair(a, b) ==
    {c \in 1 .. Len(gayBerne.calls) :
        {gayBerne.calls[c].particle1, gayBerne.calls[c].particle2} = {a, b}}

\* The exceptions that name the pair {a, b}.
ExceptionsForPair(a, b) ==
    {k \in 1 .. Len(gayBerne.exceptions) :
        {gayBerne.exceptions[k][1], gayBerne.exceptions[k][2]} = {a, b}}

\* C32: when no two exceptions name the same unordered pair, calculateForce
\* calls computeOneInteraction exactly once for every unordered pair of
\* distinct particles: with the exception's parameters if an exception names
\* the pair, in either order of its particles, and with the combined sigma and
\* epsilon otherwise; never both.
C32_EveryPairComputedOnce ==
    (gayBerne.pc # "unused" /\ ExceptionsNameDistinctPairs) =>
        \A b \in 0 .. (gayBerne.numParticles - 1) : \A a \in 0 .. (b - 1) :
            /\ Cardinality(CallsForPair(a, b)) <= 1
            /\ \A c \in CallsForPair(a, b) :
                   IF ExceptionsForPair(a, b) = {}
                   THEN gayBerne.calls[c].parameters = 0
                   ELSE gayBerne.calls[c].parameters \in ExceptionsForPair(a, b)
            /\ gayBerne.pc = "returned" => Cardinality(CallsForPair(a, b)) = 1

C32_Witness ==
    /\ gayBerne.pc = "returned"
    /\ gayBerne.numParticles = 3
    /\ gayBerne.exceptions = <<<<2, 0>>, <<0, 1>>>>
    /\ Len(gayBerne.calls) = 3
    /\ gayBerne.calls[1].parameters = 0

\* The energies the calls of computeOneInteraction made so far returned, summed.
RECURSIVE CallsEnergy(_)
CallsEnergy(calls) ==
    IF calls = <<>> THEN 0 ELSE Head(calls).energy + CallsEnergy(Tail(calls))

\* The pair of a call stands at or beyond the cutoff, and a cutoff is used.
CallBeyondCutoff(call) ==
    /\ gayBerne.nonbondedMethod # "NoCutoff"
    /\ GayBerneDistance(gayBerne, call.particle1, call.particle2) >=
           gayBerne.cutoffDistance * MicroPerUnit

\* C33: calculateForce leaves the forces vector as it was on every path, the
\* throw included, and only returns an energy: the sum of what its calls of
\* computeOneInteraction returned, where a pair at or beyond the cutoff
\* contributes exactly 0 whenever the nonbonded method is not NoCutoff.
C33_ForcesUntouchedAndCutoffPairsAddZero ==
    gayBerne.pc # "unused" =>
        /\ gayBerne.forces = GayBerneForcesBefore(gayBerne.numParticles)
        /\ \A c \in 1 .. Len(gayBerne.calls) :
               CallBeyondCutoff(gayBerne.calls[c]) => gayBerne.calls[c].energy = 0
        /\ gayBerne.energy = CallsEnergy(gayBerne.calls)
        /\ gayBerne.pc = "returned" => gayBerne.returned = CallsEnergy(gayBerne.calls)

C33_Witness ==
    /\ gayBerne.pc = "returned"
    /\ gayBerne.nonbondedMethod = "CutoffNonPeriodic"
    /\ gayBerne.numParticles = 3 /\ gayBerne.cutoffDistance = 2
    /\ gayBerne.returned = 2
    /\ \E c \in 1 .. Len(gayBerne.calls) :
           /\ gayBerne.calls[c].energy = 0
           /\ GayBerneDistance(gayBerne, gayBerne.calls[c].particle1,
                               gayBerne.calls[c].particle2) = 2 * MicroPerUnit

====
